---- MODULE Spec2Model ----
(***************************************************************************)
(* google_lens_detect: object detection followed by one Google Lens query  *)
(* for the full image and one per detected crop                            *)
(* (src/src/google_search_mcp/server.py, _do_google_lens_detect and the    *)
(* functions it calls).                                                    *)
(*                                                                         *)
(* Every invocation of _do_google_lens_detect is a coroutine; run[r] is    *)
(* the frame of invocation r (its locals, its position pc, and history     *)
(* fields that record what it did).  dirs and files are the part of the    *)
(* file system the invocations share: the temporary directories made by    *)
(* tempfile.mkdtemp and the crop files written into them.                  *)
(***************************************************************************)
EXTENDS Integers, Sequences, FiniteSets, TLC

VARIABLES run, dirs, files

vars == <<run, dirs, files>>

(* server.py:2079 *)
MAX_OBJECTS == 4

(* Invocations.  Spec starts invocation 1 only; the other frame stays idle. *)
Runs == {1, 2}

(* Names tempfile.mkdtemp(prefix="lens_detect_") may hand out. *)
DirNames == {"lens_detect_a", "lens_detect_b"}

(* Position labels _detect_objects gives to regions (2 of the 9). *)
PositionLabels == {"top-left", "middle-center"}

(* What the page shows once an upload has been processed: the results, *)
(* Google's "unusual traffic" page, Lens' "Something went wrong" page, *)
(* or a page without the file input.                                    *)
BackendPages == {"results", "rate_limit_page", "error_page", "no_upload_input"}

(* The exception a Playwright call of a query raises on a timeout; other  *)
(* failures of the page raise "Error" (see Pause, CloseBrowser).          *)
QueryExceptions == {"TimeoutError"}

(* file_path, the unmodified input image. *)
OriginalPath == <<"input", -1, "file_path">>

SeqsUpTo(S, n) == UNION {[1..k -> S] : k \in 0..n}

(* The inputs of one invocation: whether image_source has the form of a   *)
(* URL, whether cv2 can be imported, whether the file exists, whether      *)
(* cv2.imread decodes it, and the regions the detector finds in it (at     *)
(* most MAX_OBJECTS, server.py:2155).                                      *)
Inputs ==
    {[url |-> u, cv2 |-> c, isfile |-> f, decodable |-> d, regions |-> o] :
        u \in BOOLEAN, c \in BOOLEAN, f \in BOOLEAN, d \in BOOLEAN,
        o \in SeqsUpTo(PositionLabels, MAX_OBJECTS)}

(* A URL names no local file; an image that cannot be read has no region. *)
ValidInputs ==
    {i \in Inputs :
        /\ (~(i.cv2 /\ i.isfile /\ i.decodable)) => i.regions = <<>>
        /\ i.url => (~i.isfile /\ ~i.decodable)}

NoValue == [kind |-> "none", msg |-> "", count |-> 0, entries |-> <<>>]

Message(m) == [kind |-> "message", msg |-> m, count |-> 0, entries |-> <<>>]

Raised(e) == [kind |-> "raised", msg |-> e, count |-> 0, entries |-> <<>>]

Text(k, q) == [kind |-> k, q |-> q]

Entry(l, t) == [label |-> l, text |-> t]

(* The frame of an invocation that has not been made.  The last fields are  *)
(* the locals of _detect_objects (its list `results` is det_results);       *)
(* absorbed[k] records the boxes merged[k] was built from and compared      *)
(* the comparisons the merge made, in order.  data and reply are the        *)
(* scraped page and the string returned by _lens_upload_in_session.         *)
IdleFrame ==
    [pc |-> "idle",
     input |-> [url |-> FALSE, cv2 |-> FALSE, isfile |-> FALSE, decodable |-> FALSE,
                regions |-> <<>>],
     objects |-> <<>>, temp_dir |-> "", crop_files |-> <<>>, mode |-> "detect",
     pw |-> "none", browser |-> "none", q |-> 0, inflight |-> {},
     results |-> <<>>, caught |-> "none", exc |-> "none", retval |-> NoValue,
     submitted |-> <<>>, outcome |-> <<>>, nMkdtemp |-> 0, nRmtree |-> 0,
     nLaunch |-> 0, nClose |-> 0, rmtreeFailed |-> FALSE,
     contours |-> <<>>, boxes |-> <<>>, i |-> 0, used |-> {}, merged |-> <<>>,
     absorbed |-> <<>>, compared |-> <<>>, det_results |-> <<>>,
     data |-> [ai_overview |-> <<>>, visual_matches |-> <<>>, raw_text |-> <<>>],
     reply |-> <<>>]

StartFrame(i) == [IdleFrame EXCEPT !.pc = "check_url", !.input = i]

InitFor(active) ==
    /\ run \in [Runs -> {IdleFrame} \cup {StartFrame(i) : i \in ValidInputs}]
    /\ \A r \in Runs : (run[r].pc = "idle") <=> (r \notin active)
    /\ dirs = {}
    /\ files = {}

Init == InitFor({1})

(* ---------------------------------------------------------------------- *)
(* Conversions of a backend page into the text of a result                 *)
(* ---------------------------------------------------------------------- *)

(* _lens_upload_in_session, server.py:2191-2288: the string returned for   *)
(* query q when the page ends as `page`.  The scraped result is the text   *)
(* of the backend's answer for the payload of query q.                     *)
LensUploadText(page, q) ==
    CASE page = "no_upload_input" -> Text("Could not find upload input", -1)
      [] page = "rate_limit_page" -> Text("Rate limited by Google. Try again later.", -1)
      [] page = "error_page" -> Text("Google Lens could not process this image crop.", -1)
      [] OTHER -> Text("identification", q)

(* _do_google_lens, server.py:1836-2042, local file: the string returned.  *)
(* It has no "unusual traffic" check: a rate-limit page is scraped like    *)
(* any page and comes back as the raw text of a result.                    *)
LensText(page) ==
    CASE page = "no_upload_input" -> Text("Could not find the upload button on Google Images.", -1)
      [] page = "error_page" -> Text("Google Lens could not process the image", -1)
      [] page = "rate_limit_page" -> Text("raw page text", 0)
      [] OTHER -> Text("identification", 0)

(* Section labels of the report: 2334, 2340 (f"Object ({label})"), 2344,  *)
(* and the heading of _do_google_lens' own output (2002).                  *)
FullImageLabel == <<"Full image (original)", "">>

ObjectLabel(l) == <<"Object", l>>

ErrorLabel == <<"Error", "">>

LensHeading == <<"Google Lens Results for image", "">>

NoHeading == <<"", "">>

(* SectionLabel as it would be if every crop section took the label of    *)
(* the first crop.                                                         *)
SectionLabelOfFirstCrop(f, q) ==
    IF q = 0 THEN FullImageLabel ELSE ObjectLabel(f.crop_files[1].label)

(* The label of the section of query q: server.py:2334 and 2340. *)
SectionLabel(f, q) ==
    IF q = 0 THEN FullImageLabel ELSE ObjectLabel(f.crop_files[q].label)

(* QueryPath as it would be if the crops were walked from the last one.   *)
QueryPathReversed(f, q) ==
    IF q = 0 THEN OriginalPath ELSE f.crop_files[Len(f.crop_files) + 1 - q].path

(* The payload of query q: file_path (2333) or crop_files[q-1][0] (2339). *)
QueryPath(f, q) ==
    IF q = 0 THEN OriginalPath ELSE f.crop_files[q].path

(* ---------------------------------------------------------------------- *)
(* _do_google_lens_detect, server.py:2291-2366                             *)
(* ---------------------------------------------------------------------- *)

(* The text google_lens_detect returns for a URL (2393). *)
LocalFilesOnly == Message("google_lens_detect only works with local files. Use google_lens for URLs.")

(* CheckUrl as it would be without the test of the prefix: every input     *)
(* goes on to _do_google_lens_detect.                                      *)
CheckUrlUnchecked(r) ==
    /\ run[r].pc = "check_url"
    /\ run' = [run EXCEPT ![r].pc = "import_cv2"]
    /\ UNCHANGED <<dirs, files>>

(* google_lens_detect, 2392-2394: an image_source that starts with         *)
(* http:// or https:// is answered with a message; any other is passed to  *)
(* _do_google_lens_detect.                                                 *)
CheckUrl(r) ==
    /\ run[r].pc = "check_url"
    /\ IF run[r].input.url
         THEN run' = [run EXCEPT ![r].pc = "returned", ![r].retval = LocalFilesOnly]
         ELSE run' = [run EXCEPT ![r].pc = "import_cv2"]
    /\ UNCHANGED <<dirs, files>>

(* 2293-2296: import cv2, or return the install hint. *)
ImportCv2(r) ==
    /\ run[r].pc = "import_cv2"
    /\ IF run[r].input.cv2
         THEN run' = [run EXCEPT ![r].pc = "check_file"]
         ELSE run' = [run EXCEPT ![r].pc = "returned",
                                 ![r].retval = Message("opencv-python-headless is required")]
    /\ UNCHANGED <<dirs, files>>

(* 2298-2300: os.path.isfile(file_path), or return "File not found". *)
CheckFile(r) ==
    /\ run[r].pc = "check_file"
    /\ IF run[r].input.isfile
         THEN run' = [run EXCEPT ![r].pc = "detect"]
         ELSE run' = [run EXCEPT ![r].pc = "returned",
                                 ![r].retval = Message("File not found")]
    /\ UNCHANGED <<dirs, files>>

(* _detect_objects, 2093-2095 and 2121-2172: [] when the image cannot be   *)
(* read, else the padded and labelled regions, in the order produced.      *)
DetectObjects(i) ==
    IF i.decodable THEN i.regions ELSE <<>>

(* 2303: objects = _detect_objects(file_path). *)
Detect(r) ==
    /\ run[r].pc = "detect"
    /\ run' = [run EXCEPT ![r].pc = "imread",
                          ![r].objects = DetectObjects(run[r].input)]
    /\ UNCHANGED <<dirs, files>>

(* ReadImage as it would be without the check of the decoded image: the   *)
(* run goes on to make its temporary directory.                            *)
ReadImageUnchecked(r) ==
    /\ run[r].pc = "imread"
    /\ run' = [run EXCEPT ![r].pc = "mkdtemp"]
    /\ UNCHANGED <<dirs, files>>

(* 2307-2309: img = cv2.imread(file_path), or return "Could not read". *)
ReadImage(r) ==
    /\ run[r].pc = "imread"
    /\ IF run[r].input.decodable
         THEN run' = [run EXCEPT ![r].pc = "mkdtemp"]
         ELSE run' = [run EXCEPT ![r].pc = "returned",
                                 ![r].retval = Message("Could not read image")]
    /\ UNCHANGED <<dirs, files>>

(* MakeTempDir as it would be with a fixed directory name: the directory   *)
(* is made if it is missing and used as it is otherwise.                   *)
MakeTempDirShared(r) ==
    /\ run[r].pc = "mkdtemp"
    /\ \/ /\ dirs' = dirs \cup {"lens_detect_a"}
          /\ run' = [run EXCEPT ![r].pc = "write_crops",
                                ![r].temp_dir = "lens_detect_a",
                                ![r].nMkdtemp = @ + 1]
       \/ /\ dirs' = dirs
          /\ run' = [run EXCEPT ![r].pc = "returned",
                                ![r].retval = Raised("OSError")]
    /\ UNCHANGED files

(* 2311-2312: temp_dir = tempfile.mkdtemp(prefix="lens_detect_"): a new    *)
(* directory under a name no existing directory has, or OSError, raised    *)
(* before the try block is entered.                                        *)
MakeTempDir(r) ==
    /\ run[r].pc = "mkdtemp"
    /\ \/ \E d \in DirNames \ dirs :
            /\ dirs' = dirs \cup {d}
            /\ run' = [run EXCEPT ![r].pc = "write_crops",
                                  ![r].temp_dir = d,
                                  ![r].nMkdtemp = @ + 1]
       \/ /\ dirs' = dirs
          /\ run' = [run EXCEPT ![r].pc = "returned",
                                ![r].retval = Raised("OSError")]
    /\ UNCHANGED files

(* WriteCrop as it would be if the crops were written before the try      *)
(* block: an exception of cv2.imwrite leaves the run at once.              *)
WriteCropOutsideTry(r) ==
    LET f == run[r]
        i == Len(f.crop_files)
    IN  /\ f.pc = "write_crops"
        /\ i < Len(f.objects)
        /\ LET label == f.objects[i + 1]
               crop_path == <<f.temp_dir, i, label>>
           IN  \/ /\ files' = files \cup {crop_path}
                  /\ run' = [run EXCEPT ![r].crop_files =
                                 Append(@, [path |-> crop_path, label |-> label])]
               \/ /\ files' = files
                  /\ run' = [run EXCEPT ![r].pc = "returned",
                                        ![r].exc = "cv2.error",
                                        ![r].retval = Raised("cv2.error")]
        /\ UNCHANGED dirs

(* 2314-2318, one iteration: crop object i, write it to                    *)
(* temp_dir/object_{i}_{label}.jpg and append (crop_path, label); or       *)
(* cv2.imwrite raises, which leaves the try block for the outer finally.   *)
WriteCrop(r) ==
    LET f == run[r]
        i == Len(f.crop_files)
    IN  /\ f.pc = "write_crops"
        /\ i < Len(f.objects)
        /\ LET label == f.objects[i + 1]
               crop_path == <<f.temp_dir, i, label>>
           IN  \/ /\ files' = files \cup {crop_path}
                  /\ run' = [run EXCEPT ![r].crop_files =
                                 Append(@, [path |-> crop_path, label |-> label])]
               \/ /\ files' = files
                  /\ run' = [run EXCEPT ![r].pc = "cleanup",
                                        ![r].exc = "cv2.error"]
        /\ UNCHANGED dirs

(* CropsWritten as it would be if the finally that removes the temporary   *)
(* directory closed the block that writes the crops: the tree is removed   *)
(* before the session starts.                                              *)
CropsWrittenThenRemoved(r) ==
    LET f == run[r]
    IN  /\ f.pc = "write_crops"
        /\ Len(f.crop_files) = Len(f.objects)
        /\ run' = [run EXCEPT ![r].pc = "pw_enter",
                              ![r].mode = IF f.crop_files = <<>> THEN "lens" ELSE "detect",
                              ![r].nRmtree = @ + 1]
        /\ dirs' = dirs \ {f.temp_dir}
        /\ files' = {p \in files : p[1] # f.temp_dir}

(* 2320-2325: the loop is over; with no crop the run falls back to         *)
(* _do_google_lens(file_path), else it opens the shared browser session.   *)
CropsWritten(r) ==
    LET f == run[r]
    IN  /\ f.pc = "write_crops"
        /\ Len(f.crop_files) = Len(f.objects)
        /\ run' = [run EXCEPT ![r].pc = "pw_enter",
                              ![r].mode = IF f.crop_files = <<>> THEN "lens" ELSE "detect"]
        /\ UNCHANGED <<dirs, files>>

(* ---------------------------------------------------------------------- *)
(* The browser session: 2325-2327 and 2346-2347 in _do_google_lens_detect, *)
(* 1818-1820 and 2047-2048 in _do_google_lens, _launch_browser 56-71       *)
(* ---------------------------------------------------------------------- *)

(* Where an exception raised inside `async with async_playwright()` but    *)
(* outside the inner try goes: to the context manager's exit.              *)

(* 2325 / 1818: async with async_playwright() as pw: the driver starts,    *)
(* or the start raises and the exception leaves for the outer finally.     *)
PwEnter(r) ==
    /\ run[r].pc = "pw_enter"
    /\ \/ run' = [run EXCEPT ![r].pc = "launch", ![r].pw = "open"]
       \/ run' = [run EXCEPT ![r].pc = "cleanup", ![r].exc = "Error"]
    /\ UNCHANGED <<dirs, files>>

(* _launch_browser, 58-65: pw.chromium.launch(...), or it raises. *)
Launch(r) ==
    /\ run[r].pc = "launch"
    /\ \/ run' = [run EXCEPT ![r].pc = "new_page", ![r].browser = "open",
                             ![r].nLaunch = @ + 1]
       \/ run' = [run EXCEPT ![r].pc = "pw_exit", ![r].exc = "Error"]
    /\ UNCHANGED <<dirs, files>>

(* _launch_browser, 66-71, and 2327 / 1820: browser.new_context(...) and   *)
(* context.new_page().  Either may raise: the browser is then open and the *)
(* try block whose finally closes it has not been entered.                 *)
NewPage(r) ==
    /\ run[r].pc = "new_page"
    /\ \/ run' = [run EXCEPT ![r].pc = IF run[r].mode = "lens" THEN "lens_submit" ELSE "submit",
                             ![r].q = 0]
       \/ run' = [run EXCEPT ![r].pc = "pw_exit", ![r].exc = "Error"]
    /\ UNCHANGED <<dirs, files>>

(* Submit as it would be if the uploads were started without awaiting     *)
(* each one (all queries scheduled at once, the last one awaited).         *)
SubmitWithoutAwait(r) ==
    LET f == run[r]
    IN  /\ f.pc = "submit"
        /\ run' = [run EXCEPT ![r].pc = IF f.q < Len(f.crop_files) THEN "submit" ELSE "await",
                              ![r].q = IF f.q < Len(f.crop_files) THEN @ + 1 ELSE @,
                              ![r].inflight = @ \cup {f.q},
                              ![r].submitted = Append(@, QueryPath(f, f.q))]
        /\ UNCHANGED <<dirs, files>>

(* 2333 and 2339: _lens_upload_in_session(page, path) is called for query  *)
(* q: the payload is handed to the page (2180-2194) and the coroutine      *)
(* suspends until the page has answered.                                   *)
Submit(r) ==
    LET f == run[r]
    IN  /\ f.pc = "submit"
        /\ run' = [run EXCEPT ![r].pc = "await",
                              ![r].inflight = @ \cup {f.q},
                              ![r].submitted = Append(@, QueryPath(f, f.q))]
        /\ UNCHANGED <<dirs, files>>

(* Resolve as it would be if the rate-limit page raised instead of being   *)
(* returned as a string: the query has no entry and the except clause      *)
(* takes over.                                                             *)
ResolveRaiseOnRateLimit(r) ==
    LET f == run[r]
    IN  /\ f.pc = "await"
        /\ f.q \in f.inflight
        /\ \/ \E page \in BackendPages \ {"rate_limit_page"} :
                run' = [run EXCEPT ![r].pc = "pause",
                                   ![r].inflight = @ \ {f.q},
                                   ![r].outcome = Append(@, page),
                                   ![r].results = Append(@,
                                       Entry(SectionLabel(f, f.q), LensUploadText(page, f.q)))]
           \/ run' = [run EXCEPT ![r].pc = "except",
                                 ![r].inflight = @ \ {f.q},
                                 ![r].outcome = Append(@, "rate_limit_page"),
                                 ![r].caught = "Error"]
           \/ \E e \in QueryExceptions :
                run' = [run EXCEPT ![r].pc = "except",
                                   ![r].inflight = @ \ {f.q},
                                   ![r].outcome = Append(@, e),
                                   ![r].caught = e]
        /\ UNCHANGED <<dirs, files>>

(* Resolve as it would be with an early exit on the rate-limit page: the   *)
(* text is recorded and the remaining queries are skipped.                 *)
ResolveStopOnRateLimit(r) ==
    LET f == run[r]
    IN  /\ f.pc = "await"
        /\ f.q \in f.inflight
        /\ \/ \E page \in BackendPages :
                run' = [run EXCEPT ![r].pc = IF page = "rate_limit_page" THEN "close" ELSE "pause",
                                   ![r].inflight = @ \ {f.q},
                                   ![r].outcome = Append(@, page),
                                   ![r].results = Append(@,
                                       Entry(SectionLabel(f, f.q), LensUploadText(page, f.q)))]
           \/ \E e \in QueryExceptions :
                run' = [run EXCEPT ![r].pc = "except",
                                   ![r].inflight = @ \ {f.q},
                                   ![r].outcome = Append(@, e),
                                   ![r].caught = e]
        /\ UNCHANGED <<dirs, files>>

(* Resolve as it would be with a retry: a query that met Lens' error page  *)
(* or raised is submitted again (twice at most).                           *)
ResolveRetrying(r) ==
    LET f == run[r]
    IN  /\ f.pc = "await"
        /\ f.q \in f.inflight
        /\ \/ \E page \in BackendPages :
                IF page = "error_page" /\ Len(f.submitted) < Len(f.crop_files) + 3
                  THEN run' = [run EXCEPT ![r].pc = "submit",
                                          ![r].inflight = @ \ {f.q},
                                          ![r].outcome = Append(@, page)]
                  ELSE run' = [run EXCEPT ![r].pc = "pause",
                                          ![r].inflight = @ \ {f.q},
                                          ![r].outcome = Append(@, page),
                                          ![r].results = Append(@,
                                              Entry(SectionLabel(f, f.q), LensUploadText(page, f.q)))]
           \/ \E e \in QueryExceptions :
                run' = [run EXCEPT ![r].pc = "except",
                                   ![r].inflight = @ \ {f.q},
                                   ![r].outcome = Append(@, e),
                                   ![r].caught = e]
        /\ UNCHANGED <<dirs, files>>

(* 2196-2288 and 2334 / 2340: the awaited query returns a string, which is *)
(* appended under the label of its query; or a Playwright call of the      *)
(* query raises (2180, 2187, 2194, 2197, 2214, 2221), which leaves the try *)
(* block for the except clause at 2343.                                    *)
Resolve(r) ==
    LET f == run[r]
    IN  /\ f.pc = "await"
        /\ f.q \in f.inflight
        /\ \/ \E page \in BackendPages :
                run' = [run EXCEPT ![r].pc = "pause",
                                   ![r].inflight = @ \ {f.q},
                                   ![r].outcome = Append(@, page),
                                   ![r].results = Append(@,
                                       Entry(SectionLabel(f, f.q), LensUploadText(page, f.q)))]
           \/ \E e \in QueryExceptions :
                run' = [run EXCEPT ![r].pc = "except",
                                   ![r].inflight = @ \ {f.q},
                                   ![r].outcome = Append(@, e),
                                   ![r].caught = e]
        /\ UNCHANGED <<dirs, files>>

(* 2335 / 2341 and the loop header 2338: page.wait_for_timeout(3000), then *)
(* the next crop if there is one, else the end of the try block; or the    *)
(* wait raises (the page is gone), which also goes to the except clause.   *)
Pause(r) ==
    LET f == run[r]
    IN  /\ f.pc = "pause"
        /\ \/ run' = [run EXCEPT ![r].pc = IF f.q < Len(f.crop_files) THEN "submit" ELSE "close",
                                 ![r].q = IF f.q < Len(f.crop_files) THEN @ + 1 ELSE @]
           \/ run' = [run EXCEPT ![r].pc = "except", ![r].caught = "Error"]
        /\ UNCHANGED <<dirs, files>>

(* Except as it would be if the handler replaced the results collected so *)
(* far by the error (results = [("Error", str(e))]).                       *)
ExceptDiscardingResults(r) ==
    LET f == run[r]
    IN  /\ f.pc = "except"
        /\ run' = [run EXCEPT ![r].pc = "close",
                              ![r].results = << Entry(ErrorLabel, Text(f.caught, -1)) >>]
        /\ UNCHANGED <<dirs, files>>

(* Except as it would be with the handler inside the loop: the error is    *)
(* recorded and the next crop is queried.                                  *)
ExceptContinuing(r) ==
    LET f == run[r]
    IN  /\ f.pc = "except"
        /\ run' = [run EXCEPT ![r].pc = IF f.q < Len(f.crop_files) THEN "submit" ELSE "close",
                              ![r].q = IF f.q < Len(f.crop_files) THEN @ + 1 ELSE @,
                              ![r].results = Append(@, Entry(ErrorLabel, Text(f.caught, -1)))]
        /\ UNCHANGED <<dirs, files>>

(* 2343-2344: except Exception as e: results.append(("Error", str(e))). *)
Except(r) ==
    LET f == run[r]
    IN  /\ f.pc = "except"
        /\ run' = [run EXCEPT ![r].pc = "close",
                              ![r].results = Append(@, Entry(ErrorLabel, Text(f.caught, -1)))]
        /\ UNCHANGED <<dirs, files>>

(* ---------------------------------------------------------------------- *)
(* The fallback, _do_google_lens(file_path), server.py:1809-2048           *)
(* ---------------------------------------------------------------------- *)

LensFailedHeading == <<"Google Lens search failed", "">>

(* What _do_google_lens returns for a page: the heading line and the       *)
(* result (2002-2042), or one of its error strings alone (1848, 1880).     *)
LensValue(page) ==
    [kind |-> "lens", msg |-> "", count |-> 0,
     entries |-> << Entry(IF page \in {"results", "rate_limit_page"}
                             THEN LensHeading ELSE NoHeading,
                          LensText(page)) >>]

(* 2044-2045: return f"Google Lens search failed: {e}". *)
LensFailedValue(e) ==
    [kind |-> "lens", msg |-> "", count |-> 0,
     entries |-> << Entry(LensFailedHeading, Text(e, -1)) >>]

(* 1823-1838: the one query of the fallback, for the file itself. *)
LensSubmit(r) ==
    /\ run[r].pc = "lens_submit"
    /\ run' = [run EXCEPT ![r].pc = "lens_await",
                          ![r].inflight = @ \cup {0},
                          ![r].submitted = Append(@, OriginalPath)]
    /\ UNCHANGED <<dirs, files>>

(* LensResolve as it would be with a retry: a query that raised is        *)
(* submitted again.                                                        *)
LensResolveRetrying(r) ==
    /\ run[r].pc = "lens_await"
    /\ 0 \in run[r].inflight
    /\ \/ \E page \in BackendPages :
            run' = [run EXCEPT ![r].pc = "close",
                               ![r].inflight = @ \ {0},
                               ![r].outcome = Append(@, page),
                               ![r].retval = LensValue(page)]
       \/ \E e \in QueryExceptions :
            /\ Len(run[r].submitted) < 3
            /\ run' = [run EXCEPT ![r].pc = "lens_submit",
                                  ![r].inflight = @ \ {0},
                                  ![r].outcome = Append(@, e)]
    /\ UNCHANGED <<dirs, files>>

(* 1839-2045: the query returns its string from inside the try block, or   *)
(* raises and the except clause turns the exception into a string.         *)
LensResolve(r) ==
    /\ run[r].pc = "lens_await"
    /\ 0 \in run[r].inflight
    /\ \/ \E page \in BackendPages :
            run' = [run EXCEPT ![r].pc = "close",
                               ![r].inflight = @ \ {0},
                               ![r].outcome = Append(@, page),
                               ![r].retval = LensValue(page)]
       \/ \E e \in QueryExceptions :
            run' = [run EXCEPT ![r].pc = "close",
                               ![r].inflight = @ \ {0},
                               ![r].outcome = Append(@, e),
                               ![r].retval = LensFailedValue(e)]
    /\ UNCHANGED <<dirs, files>>

(* ---------------------------------------------------------------------- *)
(* Leaving the session and the run                                         *)
(* ---------------------------------------------------------------------- *)

(* 2346-2347 / 2047-2048: finally: await browser.close().  If the call     *)
(* raises, the exception replaces whatever the try block was returning and *)
(* the browser is left to the exit of async_playwright().                  *)
CloseBrowser(r) ==
    /\ run[r].pc = "close"
    /\ \/ run' = [run EXCEPT ![r].pc = "pw_exit", ![r].browser = "closed",
                             ![r].nClose = @ + 1]
       \/ run' = [run EXCEPT ![r].pc = "pw_exit", ![r].exc = "Error"]
    /\ UNCHANGED <<dirs, files>>

(* The end of `async with async_playwright()` (2325 / 1818): the driver is *)
(* stopped, which ends a browser that is still open.  An exception passes  *)
(* on to the outer finally; the fallback's value is returned through it    *)
(* (2322); otherwise the report is formatted next.                         *)
PwExit(r) ==
    LET f == run[r]
    IN  /\ f.pc = "pw_exit"
        /\ run' = [run EXCEPT ![r].pc = IF f.exc # "none" \/ f.mode = "lens"
                                           THEN "cleanup" ELSE "format",
                              ![r].pw = "closed",
                              ![r].browser = IF @ = "open" THEN "closed" ELSE @,
                              ![r].nClose = IF f.browser = "open" THEN @ + 1 ELSE @]
        /\ UNCHANGED <<dirs, files>>

(* Report as it would be if the header counted the sections. *)
ReportCountingSections(f) ==
    [kind |-> "report", msg |-> "", count |-> Len(f.results), entries |-> f.results]

(* 2349-2361: the header with len(crop_files), then one section per entry  *)
(* of results, in order.                                                   *)
Report(f) ==
    [kind |-> "report", msg |-> "", count |-> Len(f.crop_files), entries |-> f.results]

Format(r) ==
    /\ run[r].pc = "format"
    /\ run' = [run EXCEPT ![r].pc = "cleanup", ![r].retval = Report(run[r])]
    /\ UNCHANGED <<dirs, files>>

(* What the caller gets: the exception in flight, else the value returned. *)
Outcome(f) ==
    IF f.exc # "none" THEN Raised(f.exc) ELSE f.retval

(* Cleanup as it would be without the finally: the removal is skipped     *)
(* when an exception is passing through.                                  *)
CleanupUnlessRaised(r) ==
    LET f == run[r]
    IN  /\ f.pc = "cleanup"
        /\ IF f.exc # "none"
             THEN /\ dirs' = dirs
                  /\ files' = files
                  /\ run' = [run EXCEPT ![r].pc = "returned",
                                        ![r].retval = Outcome(f)]
             ELSE /\ dirs' = dirs \ {f.temp_dir}
                  /\ files' = {p \in files : p[1] # f.temp_dir}
                  /\ run' = [run EXCEPT ![r].pc = "returned",
                                        ![r].nRmtree = @ + 1,
                                        ![r].retval = Outcome(f)]

(* Cleanup as it would be if a failed removal were raised to the caller    *)
(* (rmtree without ignore_errors).                                         *)
CleanupSurfacingFailure(r) ==
    LET f == run[r]
    IN  /\ f.pc = "cleanup"
        /\ \/ /\ dirs' = dirs \ {f.temp_dir}
              /\ files' = {p \in files : p[1] # f.temp_dir}
              /\ run' = [run EXCEPT ![r].pc = "returned",
                                    ![r].nRmtree = @ + 1,
                                    ![r].retval = Outcome(f)]
           \/ /\ dirs' = dirs
              /\ files' = files
              /\ run' = [run EXCEPT ![r].pc = "returned",
                                    ![r].nRmtree = @ + 1,
                                    ![r].rmtreeFailed = TRUE,
                                    ![r].retval = Raised("OSError")]

(* Cleanup as it would be with the removal retried until it succeeds: a    *)
(* failed attempt is noted and the loop goes round for the next one.       *)
CleanupRetrying(r) ==
    LET f == run[r]
    IN  /\ f.pc = "cleanup"
        /\ \/ /\ ~f.rmtreeFailed
              /\ dirs' = dirs \ {f.temp_dir}
              /\ files' = {p \in files : p[1] # f.temp_dir}
              /\ run' = [run EXCEPT ![r].pc = "returned",
                                    ![r].nRmtree = @ + 1,
                                    ![r].retval = Outcome(f)]
           \/ /\ dirs' = dirs
              /\ files' = files
              /\ run' = [run EXCEPT ![r].rmtreeFailed = ~@]

(* 2363-2366: finally: shutil.rmtree(temp_dir, ignore_errors=True).  The   *)
(* tree is removed, or the removal fails, the error is ignored and the     *)
(* tree stays; the run then returns or re-raises.                          *)
Cleanup(r) ==
    LET f == run[r]
    IN  /\ f.pc = "cleanup"
        /\ \/ /\ dirs' = dirs \ {f.temp_dir}
              /\ files' = {p \in files : p[1] # f.temp_dir}
              /\ run' = [run EXCEPT ![r].pc = "returned",
                                    ![r].nRmtree = @ + 1,
                                    ![r].retval = Outcome(f)]
           \/ /\ dirs' = dirs
              /\ files' = files
              /\ run' = [run EXCEPT ![r].pc = "returned",
                                    ![r].nRmtree = @ + 1,
                                    ![r].rmtreeFailed = TRUE,
                                    ![r].retval = Outcome(f)]

Next ==
    \E r \in Runs :
        \/ CheckUrl(r)
        \/ ImportCv2(r)
        \/ CheckFile(r)
        \/ Detect(r)
        \/ ReadImage(r)
        \/ MakeTempDir(r)
        \/ WriteCrop(r)
        \/ CropsWritten(r)
        \/ PwEnter(r)
        \/ Launch(r)
        \/ NewPage(r)
        \/ Submit(r)
        \/ Resolve(r)
        \/ Pause(r)
        \/ Except(r)
        \/ LensSubmit(r)
        \/ LensResolve(r)
        \/ CloseBrowser(r)
        \/ PwExit(r)
        \/ Format(r)
        \/ Cleanup(r)

Spec == Init /\ [][Next]_vars

(* The most regions of the image of an invocation whose termination is     *)
(* followed.                                                               *)
MaxLiveObjects == 2

(* One invocation, on any input with at most MaxLiveObjects regions. *)
LiveInit ==
    /\ Init
    /\ \A r \in Runs : Len(run[r].input.regions) <= MaxLiveObjects

(* Every step of the program and of its backend that can be taken is       *)
(* eventually taken: a call on the page returns or raises within its       *)
(* timeout, and the code between two awaits is finite.                     *)
FairSpec == LiveInit /\ [][Next]_vars /\ WF_vars(Next)

(* ---------------------------------------------------------------------- *)
(* _detect_objects, server.py:2082-2172                                    *)
(* ---------------------------------------------------------------------- *)

(* img.shape of the images the detector is run on. *)
ImageW == 30

ImageH == 20

(* The most contours cv2.findContours returns for one image. *)
MaxContours == 5

Min(a, b) == IF a <= b THEN a ELSE b

Max(a, b) == IF a >= b THEN a ELSE b

Rect(x, y, w, h) == [x |-> x, y |-> y, w |-> w, h |-> h]

(* cv2.boundingRect(cnt) of the contours of an image: boxes of a top and   *)
(* a bottom row, some overlapping by 0.3 or 0.4 of their area, a box       *)
(* astride the two rows, a box too small to count and the box of the whole *)
(* frame.                                                                  *)
ContourRects ==
    {Rect(x, 0, 10, 10) : x \in {0, 7, 14, 20}}
        \cup {Rect(0, 0, 20, 10)}
        \cup {Rect(x, 10, 10, 10) : x \in {0, 20}}
        \cup {Rect(20, 5, 10, 9)}
        \cup {Rect(0, 0, 3, 3), Rect(0, 0, ImageW, ImageH)}

(* The lists of contours of one image, in the order findContours gives     *)
(* them: up to MaxContours contours with distinct bounding rectangles.     *)
ContourLists ==
    {c \in SeqsUpTo(ContourRects, MaxContours) :
        \A j, k \in 1..Len(c) : j # k => c[j] # c[k]}

(* 2087-2099: the frame of _detect_objects on an image with contours c. *)
DetectFrame(c) == [IdleFrame EXCEPT !.pc = "det_filter", !.contours = c]

DetectInit ==
    /\ run \in {[r \in Runs |-> IF r = 1 THEN DetectFrame(c) ELSE IdleFrame] :
                    c \in ContourLists}
    /\ dirs = {}
    /\ files = {}

(* 2116-2117 and 2119: the tuple (x, y, bw, bh, area) of a contour. *)
BoundingBox(b) == [x |-> b.x, y |-> b.y, w |-> b.w, h |-> b.h, area |-> b.w * b.h]

(* Significant as it would be without the upper bound: only boxes that are *)
(* too small are dropped.                                                  *)
SignificantLowerOnly(b) == 100 * b.area >= 2 * (ImageH * ImageW)

(* 2098-2099 and 2118: area >= total_area * 0.02 and area <                *)
(* total_area * 0.95, in hundredths.                                       *)
Significant(b) ==
    /\ 100 * b.area >= 2 * (ImageH * ImageW)
    /\ 100 * b.area < 95 * (ImageH * ImageW)

(* 2113-2122: keep the significant boxes; return [] if there is none. *)
FilterBoxes(r) ==
    LET f == run[r]
        all == [k \in 1..Len(f.contours) |-> BoundingBox(f.contours[k])]
        kept == SelectSeq(all, Significant)
    IN  /\ f.pc = "det_filter"
        /\ run' = [run EXCEPT ![r].boxes = kept,
                              ![r].pc = IF kept = <<>> THEN "detected" ELSE "det_sort"]
        /\ UNCHANGED <<dirs, files>>

(* list.sort(key=area, reverse=True) is stable: b goes after every box of  *)
(* s whose area is at least its own.                                       *)
InsertByArea(s, b) ==
    LET p == Cardinality({j \in 1..Len(s) : s[j].area >= b.area})
    IN  SubSeq(s, 1, p) \o <<b>> \o SubSeq(s, p + 1, Len(s))

RECURSIVE SortByArea(_)
(* 2125: boxes.sort(key=lambda b: b[4], reverse=True). *)
SortByArea(s) ==
    IF s = <<>> THEN <<>>
    ELSE InsertByArea(SortByArea(SubSeq(s, 1, Len(s) - 1)), s[Len(s)])

(* 2125-2129: sort, then merged = [] and used = set(). *)
SortBoxes(r) ==
    /\ run[r].pc = "det_sort"
    /\ run' = [run EXCEPT ![r].boxes = SortByArea(@),
                          ![r].pc = "det_merge",
                          ![r].i = 1, ![r].used = {}, ![r].merged = <<>>,
                          ![r].absorbed = <<>>, ![r].compared = <<>>]
    /\ UNCHANGED <<dirs, files>>

(* 2138-2140: the area of the intersection of the anchor m and box b. *)
Overlap(m, b) ==
    LET ox == Max(0, Min(m.x + m.w, b.x + b.w) - Max(m.x, b.x))
        oy == Max(0, Min(m.y + m.h, b.y + b.h) - Max(m.y, b.y))
    IN  ox * oy

(* 2141: smaller_area = min(mw * mh, w2 * h2). *)
SmallerArea(m, b) == Min(m.w * m.h, b.w * b.h)

(* Absorbs as it would be with a threshold of one half. *)
AbsorbsAboveHalf(m, b) ==
    LET smaller_area == SmallerArea(m, b)
    IN  smaller_area > 0 /\ 10 * Overlap(m, b) > 5 * smaller_area

(* 2141-2142: smaller_area > 0 and overlap / smaller_area > 0.3, in        *)
(* tenths.                                                                 *)
Absorbs(m, b) ==
    LET smaller_area == SmallerArea(m, b)
    IN  smaller_area > 0 /\ 10 * Overlap(m, b) > 3 * smaller_area

(* 2144-2148: the anchor after the merge, the bounding box of both. *)
MergeInto(m, b) ==
    LET nx == Min(m.x, b.x)
        ny == Min(m.y, b.y)
    IN  Rect(nx, ny, Max(m.x + m.w, b.x + b.w) - nx, Max(m.y + m.h, b.y + b.h) - ny)

(* The record of one comparison of the inner loop: the anchor of index i   *)
(* with bounds m against the box of index j.                               *)
Comparison(boxes, i, j, m) ==
    [i |-> i, j |-> j, m |-> m, smaller_area |-> SmallerArea(m, boxes[j]),
     absorbed |-> Absorbs(m, boxes[j])]

RECURSIVE AbsorbFromWithoutMarking(_, _, _, _, _, _)
(* AbsorbFrom as it would be without used.add(j): an absorbed box is left  *)
(* to become an anchor of its own later.                                   *)
AbsorbFromWithoutMarking(boxes, i, j, m, used, compared) ==
    IF j > Len(boxes) THEN [m |-> m, used |-> used, compared |-> compared]
    ELSE IF j <= i \/ j \in used
           THEN AbsorbFromWithoutMarking(boxes, i, j + 1, m, used, compared)
    ELSE IF Absorbs(m, boxes[j])
           THEN AbsorbFromWithoutMarking(boxes, i, j + 1, MergeInto(m, boxes[j]), used,
                                         Append(compared, Comparison(boxes, i, j, m)))
           ELSE AbsorbFromWithoutMarking(boxes, i, j + 1, m, used,
                                         Append(compared, Comparison(boxes, i, j, m)))

RECURSIVE AbsorbFromOriginalBounds(_, _, _, _, _, _)
(* AbsorbFrom as it would be if every box were compared with the bounds    *)
(* the anchor had at first, boxes[i], while the anchor grows.              *)
AbsorbFromOriginalBounds(boxes, i, j, m, used, compared) ==
    LET b == boxes[i]
        o == Rect(b.x, b.y, b.w, b.h)
    IN  IF j > Len(boxes) THEN [m |-> m, used |-> used, compared |-> compared]
        ELSE IF j <= i \/ j \in used
               THEN AbsorbFromOriginalBounds(boxes, i, j + 1, m, used, compared)
        ELSE IF Absorbs(o, boxes[j])
               THEN AbsorbFromOriginalBounds(boxes, i, j + 1, MergeInto(m, boxes[j]),
                                             used \cup {j},
                                             Append(compared, Comparison(boxes, i, j, o)))
               ELSE AbsorbFromOriginalBounds(boxes, i, j + 1, m, used,
                                             Append(compared, Comparison(boxes, i, j, o)))

RECURSIVE AbsorbFrom(_, _, _, _, _, _)
(* 2134-2149: the inner loop from index j on, for the anchor of index i    *)
(* with current bounds m: the final bounds, the set `used` and the         *)
(* comparisons made.                                                       *)
AbsorbFrom(boxes, i, j, m, used, compared) ==
    IF j > Len(boxes) THEN [m |-> m, used |-> used, compared |-> compared]
    ELSE IF j <= i \/ j \in used THEN AbsorbFrom(boxes, i, j + 1, m, used, compared)
    ELSE IF Absorbs(m, boxes[j])
           THEN AbsorbFrom(boxes, i, j + 1, MergeInto(m, boxes[j]), used \cup {j},
                           Append(compared, Comparison(boxes, i, j, m)))
           ELSE AbsorbFrom(boxes, i, j + 1, m, used,
                           Append(compared, Comparison(boxes, i, j, m)))

(* 2130-2151, one iteration of the outer loop: a used box is skipped; any  *)
(* other becomes an anchor, absorbs, and is appended to merged.            *)
MergeStep(r) ==
    LET f == run[r]
        b == f.boxes[f.i]
        a == AbsorbFrom(f.boxes, f.i, 1, Rect(b.x, b.y, b.w, b.h), f.used, f.compared)
        next == IF f.i = Len(f.boxes) THEN "det_pad" ELSE "det_merge"
    IN  /\ f.pc = "det_merge"
        /\ f.i <= Len(f.boxes)
        /\ IF f.i \in f.used
             THEN run' = [run EXCEPT ![r].i = @ + 1, ![r].pc = next]
             ELSE run' = [run EXCEPT ![r].i = @ + 1, ![r].pc = next,
                                     ![r].merged = Append(@, a.m),
                                     ![r].used = a.used \cup {f.i},
                                     ![r].absorbed = Append(@, (a.used \ f.used) \cup {f.i}),
                                     ![r].compared = a.compared]
        /\ UNCHANGED <<dirs, files>>

(* Capped as it would be without the slice: every merged box is kept. *)
Uncapped(merged) == merged

RECURSIVE MergeFrom(_, _, _, _)
(* 2130-2151: the outer loop from index i on, over sorted boxes: the list  *)
(* merged at its end.                                                      *)
MergeFrom(boxes, i, used, merged) ==
    IF i > Len(boxes) THEN merged
    ELSE IF i \in used THEN MergeFrom(boxes, i + 1, used, merged)
    ELSE LET b == boxes[i]
             a == AbsorbFrom(boxes, i, 1, Rect(b.x, b.y, b.w, b.h), used, <<>>)
         IN  MergeFrom(boxes, i + 1, a.used \cup {i}, Append(merged, a.m))

(* 2124-2151: the merge step on a list of boxes: sort by area, merge. *)
MergeBoxes(rects) ==
    MergeFrom(SortByArea([k \in 1..Len(rects) |-> BoundingBox(rects[k])]), 1, {}, <<>>)

(* Capped as it would be with a slice from the end: the last MAX_OBJECTS   *)
(* merged boxes are kept.                                                  *)
CappedFromEnd(merged) ==
    SubSeq(merged, Max(1, Len(merged) - MAX_OBJECTS + 1), Len(merged))

(* 2155: merged[:MAX_OBJECTS]. *)
Capped(merged) == SubSeq(merged, 1, Min(Len(merged), MAX_OBJECTS))

(* LabelText as it would be with the two parts in the other order:         *)
(* f"{h_pos}-{v_pos}".                                                     *)
LabelTextHorizontalFirst(v_pos, h_pos) ==
    CASE v_pos = "top" /\ h_pos = "left" -> "left-top"
      [] v_pos = "top" /\ h_pos = "center" -> "center-top"
      [] v_pos = "top" /\ h_pos = "right" -> "right-top"
      [] v_pos = "middle" /\ h_pos = "left" -> "left-middle"
      [] v_pos = "middle" /\ h_pos = "center" -> "center-middle"
      [] v_pos = "middle" /\ h_pos = "right" -> "right-middle"
      [] v_pos = "bottom" /\ h_pos = "left" -> "left-bottom"
      [] v_pos = "bottom" /\ h_pos = "center" -> "center-bottom"
      [] OTHER -> "right-bottom"

(* 2166-2168: f"{v_pos}-{h_pos}". *)
LabelText(v_pos, h_pos) ==
    CASE v_pos = "top" /\ h_pos = "left" -> "top-left"
      [] v_pos = "top" /\ h_pos = "center" -> "top-center"
      [] v_pos = "top" /\ h_pos = "right" -> "top-right"
      [] v_pos = "middle" /\ h_pos = "left" -> "middle-left"
      [] v_pos = "middle" /\ h_pos = "center" -> "middle-center"
      [] v_pos = "middle" /\ h_pos = "right" -> "middle-right"
      [] v_pos = "bottom" /\ h_pos = "left" -> "bottom-left"
      [] v_pos = "bottom" /\ h_pos = "center" -> "bottom-center"
      [] OTHER -> "bottom-right"

(* PadAndLabel as it would be without the clamp of the size: the box is    *)
(* the merged box grown by the pad on every side it has room on the left   *)
(* and top.                                                                *)
PadAndLabelUnclamped(m, w, h) ==
    LET pad_x == m.w \div 10
        pad_y == m.h \div 10
        cx == Max(0, m.x - pad_x)
        cy == Max(0, m.y - pad_y)
        cw == m.w + 2 * pad_x
        ch == m.h + 2 * pad_y
        v_pos == IF 100 * (2 * cy + ch) < 66 * h THEN "top"
                 ELSE IF 100 * (2 * cy + ch) < 132 * h THEN "middle" ELSE "bottom"
        h_pos == IF 100 * (2 * cx + cw) < 66 * w THEN "left"
                 ELSE IF 100 * (2 * cx + cw) < 132 * w THEN "center" ELSE "right"
    IN  [x |-> cx, y |-> cy, w |-> cw, h |-> ch, label |-> LabelText(v_pos, h_pos)]

(* PadAndLabel as it would be with the size left unpadded: the origin      *)
(* moves by the pad and the width and height stay those of the merged box. *)
PadAndLabelOriginOnly(m, w, h) ==
    LET pad_x == m.w \div 10
        pad_y == m.h \div 10
        cx == Max(0, m.x - pad_x)
        cy == Max(0, m.y - pad_y)
        cw == Min(w - cx, m.w)
        ch == Min(h - cy, m.h)
        v_pos == IF 100 * (2 * cy + ch) < 66 * h THEN "top"
                 ELSE IF 100 * (2 * cy + ch) < 132 * h THEN "middle" ELSE "bottom"
        h_pos == IF 100 * (2 * cx + cw) < 66 * w THEN "left"
                 ELSE IF 100 * (2 * cx + cw) < 132 * w THEN "center" ELSE "right"
    IN  [x |-> cx, y |-> cy, w |-> cw, h |-> ch, label |-> LabelText(v_pos, h_pos)]

(* 2156-2170: the padded, clamped and labelled region of a merged box of   *)
(* an image of width w and height h.  int(mw * 0.1) is mw \div 10; the     *)
(* centre (cy + ch / 2) / h is compared with 0.33 and 0.66 in hundredths   *)
(* of 2 * h.                                                               *)
PadAndLabel(m, w, h) ==
    LET pad_x == m.w \div 10
        pad_y == m.h \div 10
        cx == Max(0, m.x - pad_x)
        cy == Max(0, m.y - pad_y)
        cw == Min(w - cx, m.w + 2 * pad_x)
        ch == Min(h - cy, m.h + 2 * pad_y)
        v_pos == IF 100 * (2 * cy + ch) < 66 * h THEN "top"
                 ELSE IF 100 * (2 * cy + ch) < 132 * h THEN "middle" ELSE "bottom"
        h_pos == IF 100 * (2 * cx + cw) < 66 * w THEN "left"
                 ELSE IF 100 * (2 * cx + cw) < 132 * w THEN "center" ELSE "right"
    IN  [x |-> cx, y |-> cy, w |-> cw, h |-> ch, label |-> LabelText(v_pos, h_pos)]

(* 2155-2170, one iteration: pad and label the next box of                 *)
(* merged[:MAX_OBJECTS] and append it to results.                          *)
PadRegion(r) ==
    LET f == run[r]
        k == Len(f.det_results) + 1
    IN  /\ f.pc = "det_pad"
        /\ k <= Len(Capped(f.merged))
        /\ run' = [run EXCEPT ![r].det_results =
                       Append(@, PadAndLabel(Capped(f.merged)[k], ImageW, ImageH))]
        /\ UNCHANGED <<dirs, files>>

(* 2172: return results. *)
DetectReturn(r) ==
    /\ run[r].pc = "det_pad"
    /\ Len(run[r].det_results) = Len(Capped(run[r].merged))
    /\ run' = [run EXCEPT ![r].pc = "detected"]
    /\ UNCHANGED <<dirs, files>>

DetectNext ==
    \E r \in Runs :
        \/ FilterBoxes(r)
        \/ SortBoxes(r)
        \/ MergeStep(r)
        \/ PadRegion(r)
        \/ DetectReturn(r)

DetectSpec == DetectInit /\ [][DetectNext]_vars

(* ---------------------------------------------------------------------- *)
(* Two invocations of google_lens_detect running concurrently              *)
(* ---------------------------------------------------------------------- *)

(* The most regions of an image of a concurrent invocation. *)
MaxConcurrentObjects == 1

(* Readable local images with at most MaxConcurrentObjects regions, all in *)
(* the same position, so that the crops of two runs have the same name.   *)
ConcurrentInputs ==
    {i \in ValidInputs :
        /\ ~i.url /\ i.cv2 /\ i.isfile /\ i.decodable
        /\ Len(i.regions) <= MaxConcurrentObjects
        /\ \A k \in 1..Len(i.regions) : i.regions[k] = "top-left"}

(* Both invocations have been made; the event loop interleaves their       *)
(* steps at every await.                                                   *)
ConcurrentInit ==
    /\ run \in [Runs -> {StartFrame(i) : i \in ConcurrentInputs}]
    /\ dirs = {}
    /\ files = {}

ConcurrentSpec == ConcurrentInit /\ [][Next]_vars

(* ---------------------------------------------------------------------- *)
(* The text of one answered query, _lens_upload_in_session,                *)
(* server.py:2220-2288                                                     *)
(* ---------------------------------------------------------------------- *)

(* The most visual matches of a scraped page (the scraper stops at 5). *)
MaxMatches == 4

(* The most characters of the raw text of a scraped page. *)
MaxRawLen == 5

(* 2275: data["visual_matches"][:3]. *)
ShownMatches == 3

(* 2283: [:1000]. *)
RawLimit == 1000

(* Strings are sequences of characters or of whole words.  The raw text of *)
(* a page is made of newlines and of a visible character.                  *)
RawChars == {"\n", "r"}

Whitespace == {"\n", " "}

(* A visual match: its name, and a source and a URL that may be empty. *)
Matches ==
    {[name |-> <<"n">>, source |-> s, url |-> u] :
        s \in {<<>>, <<"s">>}, u \in {<<>>, <<"u">>}}

(* 2221-2268: what page.evaluate returns.  An empty string stands for a    *)
(* value that is empty or absent: data.get(...) is falsy for both.         *)
ScrapedData ==
    {[ai_overview |-> a, visual_matches |-> v, raw_text |-> t] :
        a \in {<<>>, <<"d">>},
        v \in SeqsUpTo(Matches, MaxMatches),
        t \in SeqsUpTo(RawChars, MaxRawLen)}

(* The frame of _lens_upload_in_session when the page has been scraped. *)
UploadFrame(d) == [IdleFrame EXCEPT !.pc = "scraped", !.data = d]

UploadInit ==
    /\ run \in {[r \in Runs |-> IF r = 1 THEN UploadFrame(d) ELSE IdleFrame] :
                    d \in ScrapedData}
    /\ dirs = {}
    /\ files = {}

RECURSIVE CollapseNewlines(_)
(* 2283: re.sub(r'\n{3,}', '\n\n', s): a run of three or more newlines     *)
(* becomes two.                                                            *)
CollapseNewlines(s) ==
    IF s = <<>> THEN <<>>
    ELSE IF Len(s) >= 3 /\ s[1] = "\n" /\ s[2] = "\n" /\ s[3] = "\n"
           THEN CollapseNewlines(Tail(s))
           ELSE <<Head(s)>> \o CollapseNewlines(Tail(s))

RECURSIVE StripLeft(_)
StripLeft(s) ==
    IF s # <<>> /\ Head(s) \in Whitespace THEN StripLeft(Tail(s)) ELSE s

RECURSIVE StripRight(_)
StripRight(s) ==
    IF s # <<>> /\ s[Len(s)] \in Whitespace
      THEN StripRight(SubSeq(s, 1, Len(s) - 1)) ELSE s

(* 2283: str.strip(). *)
Strip(s) == StripRight(StripLeft(s))

(* s[:n]. *)
Take(s, n) == SubSeq(s, 1, Min(Len(s), n))

(* enumerate(..., 1) in an f-string. *)
IndexText(i) == CASE i = 1 -> "1" [] i = 2 -> "2" [] OTHER -> "3"

(* 2276-2281: the lines of the i-th match shown. *)
MatchLines(m, i) ==
    LET entry == <<"  ", IndexText(i), ". ">> \o m.name
        withSource == IF m.source # <<>>
                        THEN entry \o <<" (">> \o m.source \o <<")">> ELSE entry
    IN  IF m.url # <<>> THEN <<withSource, <<"     ">> \o m.url>> ELSE <<withSource>>

RECURSIVE MatchesLines(_, _)
(* 2275-2281: the lines of the matches from the i-th on. *)
MatchesLines(shown, i) ==
    IF i > Len(shown) THEN <<>>
    ELSE MatchLines(shown[i], i) \o MatchesLines(shown, i + 1)

(* 2271-2281: the lines of the description and of the matches. *)
FoundLines(data) ==
    LET identification ==
            IF data.ai_overview # <<>>
              THEN << <<"Identification: ">> \o data.ai_overview >> ELSE <<>>
        matches ==
            IF data.visual_matches # <<>>
              THEN << <<"Visual Matches:">> >> \o
                   MatchesLines(Take(data.visual_matches, ShownMatches), 1)
              ELSE <<>>
    IN  identification \o matches

(* 2283: the raw text as it is shown. *)
RawShown(raw_text) == Take(Strip(CollapseNewlines(raw_text)), RawLimit)

(* ResultLines as it would be with the raw text added whenever the page    *)
(* has one.                                                                *)
ResultLinesAlwaysRaw(data) ==
    LET found == FoundLines(data)
        lines == IF data.raw_text # <<>>
                   THEN Append(found, RawShown(data.raw_text)) ELSE found
    IN  IF lines = <<>> THEN << <<"Could not identify this object.">> >> ELSE lines

(* 2270-2286: lines. *)
ResultLines(data) ==
    LET found == FoundLines(data)
        lines == IF found = <<>> /\ data.raw_text # <<>>
                   THEN Append(found, RawShown(data.raw_text)) ELSE found
    IN  IF lines = <<>> THEN << <<"Could not identify this object.">> >> ELSE lines

RECURSIVE JoinLines(_)
(* 2288: "\n".join(lines). *)
JoinLines(lines) ==
    IF lines = <<>> THEN <<>>
    ELSE IF Len(lines) = 1 THEN lines[1]
    ELSE lines[1] \o <<"\n">> \o JoinLines(Tail(lines))

(* 2270-2288: the string _lens_upload_in_session returns for the page. *)
UploadReturn(r) ==
    /\ run[r].pc = "scraped"
    /\ run' = [run EXCEPT ![r].pc = "answered",
                          ![r].reply = JoinLines(ResultLines(run[r].data))]
    /\ UNCHANGED <<dirs, files>>

UploadNext == \E r \in Runs : UploadReturn(r)

UploadSpec == UploadInit /\ [][UploadNext]_vars

(* ---------------------------------------------------------------------- *)
(* Properties                                                              *)
(* ---------------------------------------------------------------------- *)

Returned(r) == run[r].pc = "returned"

(* The run made its temporary directory. *)
MadeTempDir(r) == run[r].nMkdtemp = 1

(* Neither the run's temporary directory nor a crop file in it exists. *)
TempDirGone(r) ==
    /\ run[r].temp_dir \notin dirs
    /\ \A p \in files : p[1] # run[r].temp_dir

(* C1, as stated: once a run that made its temporary directory has         *)
(* returned, on whatever exit path, the directory and every crop file in   *)
(* it no longer exist.                                                     *)
C1_DirGoneAfterReturn ==
    \A r \in Runs : (Returned(r) /\ MadeTempDir(r)) => TempDirGone(r)

(* C1, amended: on every exit path of a run that made its temporary        *)
(* directory the removal of the directory is attempted exactly once before *)
(* the run returns, and the directory and its crop files no longer exist   *)
(* once the run has returned unless that removal itself failed; until the  *)
(* removal is attempted the directory exists.                              *)
C1_DirRemovedUnlessRmtreeFails ==
    \A r \in Runs :
        /\ (Returned(r) /\ MadeTempDir(r)) =>
              /\ run[r].nRmtree = 1
              /\ ~run[r].rmtreeFailed => TempDirGone(r)
        /\ (~Returned(r) /\ MadeTempDir(r)) =>
              /\ run[r].nRmtree = 0
              /\ run[r].temp_dir \in dirs

(* A run that wrote a crop, left on an exception and removed its tree. *)
C1_Witness ==
    \E r \in Runs :
        /\ Returned(r)
        /\ MadeTempDir(r)
        /\ run[r].retval.kind = "raised"
        /\ Len(run[r].crop_files) >= 1
        /\ ~run[r].rmtreeFailed
        /\ TempDirGone(r)

(* ---- helpers of the properties of the multi-query session ---- *)

(* The positions at and after the finally clause of the session (2346). *)
AfterTry == {"close", "pw_exit", "format", "cleanup", "returned"}

(* The run took the multi-query path and has left its try block. *)
LeftTry(r) ==
    /\ run[r].mode = "detect"
    /\ run[r].pc \in AfterTry
    /\ run[r].submitted # <<>>

(* An exception was raised inside the try block of the session. *)
RaisedInTry(r) == run[r].caught # "none"

RateLimitText == Text("Rate limited by Google. Try again later.", -1)

(* The section the code is to give query q (0 = full image) of run r when  *)
(* the query returns with the backend page `page`.                         *)
ExpectedLabel(r, q) ==
    IF q = 0 THEN <<"Full image (original)", "">> ELSE <<"Object", run[r].objects[q]>>

ExpectedText(page, q) ==
    IF page = "results" THEN Text("identification", q)
    ELSE IF page = "rate_limit_page" THEN RateLimitText
    ELSE IF page = "error_page" THEN Text("Google Lens could not process this image crop.", -1)
    ELSE Text("Could not find upload input", -1)

(* The payload the code is to submit as query q of run r. *)
ExpectedPath(r, q) ==
    IF q = 0 THEN <<"input", -1, "file_path">>
    ELSE <<run[r].temp_dir, q - 1, run[r].objects[q]>>

(* Every query of the run has been submitted, in the fixed order. *)
AllSubmitted(r) ==
    /\ Len(run[r].submitted) = Len(run[r].objects) + 1
    /\ \A k \in 1..Len(run[r].submitted) : run[r].submitted[k] = ExpectedPath(r, k - 1)

(* C2, as stated: a timeout, a transport error or a rate-limit indicator   *)
(* on a query is captured as the result of that query only and every       *)
(* later query is still submitted: once the session's try block is left,   *)
(* all N+1 queries have been submitted and each has its entry.             *)
C2_NoQueryFailureAbortsQuerying ==
    \A r \in Runs :
        LeftTry(r) =>
            /\ Len(run[r].submitted) = Len(run[r].objects) + 1
            /\ Len(run[r].results) = Len(run[r].objects) + 1

(* C2, amended: a failure a query returns as a string (the rate-limit      *)
(* indicator, the missing upload input, Lens' error page) is recorded as   *)
(* the entry of that query only, and unless an exception is raised every   *)
(* later query is still submitted; a timeout or transport error raised by  *)
(* a query is captured as one final "Error" entry holding its text, after  *)
(* which no further query is submitted, and the run still returns its      *)
(* report unless browser.close() raises.                                   *)
C2_ReturnedFailuresIsolatedRaisedOnesEndQuerying ==
    \A r \in Runs :
        LET f == run[r]
        IN  f.mode = "detect" =>
              /\ \A k \in 1..Len(f.outcome) :
                    f.outcome[k] \in BackendPages =>
                        /\ Len(f.results) >= k
                        /\ f.results[k] = Entry(ExpectedLabel(r, k - 1),
                                                ExpectedText(f.outcome[k], k - 1))
              /\ (LeftTry(r) /\ ~RaisedInTry(r)) =>
                    /\ AllSubmitted(r)
                    /\ Len(f.results) = Len(f.objects) + 1
              /\ (LeftTry(r) /\ RaisedInTry(r)) =>
                    /\ f.results[Len(f.results)] = Entry(<<"Error", "">>, Text(f.caught, -1))
                    /\ \A k \in 1..(Len(f.results) - 1) : f.results[k].label # <<"Error", "">>
                    /\ Len(f.submitted) = Len(f.outcome)
                    /\ Len(f.results) <= Len(f.submitted) + 1
              /\ (RaisedInTry(r) /\ f.pc \notin AfterTry) => f.pc = "except"
              /\ (Returned(r) /\ LeftTry(r) /\ f.exc = "none") =>
                    /\ f.retval.kind = "report"
                    /\ f.retval.entries = f.results

(* Run with three crops: the second query is rate limited, the third times *)
(* out, and the report is returned with three entries.                     *)
C2_Witness ==
    \E r \in Runs :
        /\ Returned(r)
        /\ Len(run[r].objects) = 3
        /\ run[r].outcome = <<"results", "rate_limit_page", "TimeoutError">>
        /\ run[r].retval.kind = "report"
        /\ Len(run[r].retval.entries) = 3
        /\ run[r].retval.entries[2].text = RateLimitText

(* The run returned a value (report or single-query result), not an        *)
(* exception and not an early error message.                               *)
ReturnedEntries(r) ==
    /\ Returned(r)
    /\ run[r].retval.kind \in {"report", "lens"}

(* Exactly one query of the run met the rate-limit page and every other    *)
(* query returned results; nothing raised.                                 *)
OneRateLimitOthersNormal(r) ==
    /\ ~RaisedInTry(r)
    /\ Len(run[r].outcome) = Len(run[r].objects) + 1
    /\ \E k \in 1..Len(run[r].outcome) :
          /\ run[r].outcome[k] = "rate_limit_page"
          /\ \A j \in 1..Len(run[r].outcome) : j # k => run[r].outcome[j] = "results"

(* The report of run r has N+1 entries, each holding the text of its own   *)
(* query: the rate-limit error text for a rate-limited query, the          *)
(* identification of its own payload for a normal one.                     *)
EntriesMatchOutcomes(r) ==
    LET f == run[r]
        e == f.retval.entries
    IN  /\ Len(e) = Len(f.objects) + 1
        /\ \A k \in 1..Len(e) :
              /\ f.outcome[k] = "rate_limit_page" => e[k].text = RateLimitText
              /\ f.outcome[k] = "results" => e[k].text = Text("identification", k - 1)

(* C3, as stated: in a run with N crops, N >= 0, where one query is rate   *)
(* limited and the others are normal, the report has N+1 entries, the      *)
(* rate-limited query's entry holds the error text, the others their own   *)
(* results, and all queries were issued.                                   *)
C3_RateLimitKeepsAllEntries ==
    \A r \in Runs :
        (ReturnedEntries(r) /\ OneRateLimitOthersNormal(r)) =>
            /\ EntriesMatchOutcomes(r)
            /\ AllSubmitted(r)

(* C3, amended: the same for a run with N >= 1 crops (with no crop the run *)
(* falls back to _do_google_lens, which has no rate-limit check and        *)
(* returns the page's text as a normal result): for any number of          *)
(* rate-limited queries, when nothing raises, the report states N, has     *)
(* N+1 entries, each rate-limited query's entry holds the error text,      *)
(* every other entry holds the result of its own query, and all N+1        *)
(* queries were issued in order.                                           *)
C3_RateLimitKeepsAllEntriesWithCrops ==
    \A r \in Runs :
        (ReturnedEntries(r) /\ Len(run[r].objects) >= 1 /\ ~RaisedInTry(r)) =>
            /\ run[r].retval.kind = "report"
            /\ run[r].retval.count = Len(run[r].objects)
            /\ EntriesMatchOutcomes(r)
            /\ \A k \in 1..Len(run[r].retval.entries) :
                  run[r].retval.entries[k].label = ExpectedLabel(r, k - 1)
            /\ AllSubmitted(r)

(* Scenario C: three crops, the second crop query rate limited. *)
C3_Witness ==
    \E r \in Runs :
        /\ Returned(r)
        /\ run[r].retval.kind = "report"
        /\ run[r].outcome = <<"results", "results", "rate_limit_page", "results">>
        /\ Len(run[r].retval.entries) = 4
        /\ run[r].retval.entries[3].text = RateLimitText
        /\ run[r].retval.entries[4].text = Text("identification", 3)

(* C4, as stated: in every report a run returns, entry 0 is labelled       *)
(* "Full image (original)" and every later entry carries the position      *)
(* label of its region, whatever the outcome of the queries.               *)
C4_EntriesLabelledByRegion ==
    \A r \in Runs :
        ReturnedEntries(r) =>
            LET e == run[r].retval.entries
            IN  /\ Len(e) >= 1
                /\ Len(e) <= Len(run[r].objects) + 1
                /\ \A k \in 1..Len(e) : e[k].label = ExpectedLabel(r, k - 1)

(* C4, amended: in every report of a run with at least one crop, the entry *)
(* of each query that returned is labelled in query order, "Full image     *)
(* (original)" first and then "Object (<position label of the region>)",   *)
(* and if a query or the pause after it raised, one more entry labelled    *)
(* "Error" ends the report (it is entry 0 when the full-image query        *)
(* raised); with no crop the run returns the output of _do_google_lens,    *)
(* whose single entry has no "Full image (original)" label.                *)
C4_EntriesLabelledByRegionThenError ==
    \A r \in Runs :
        LET e == run[r].retval.entries
        IN  /\ (Returned(r) /\ run[r].retval.kind = "report") =>
                  /\ Len(run[r].objects) >= 1
                  /\ Len(e) >= 1
                  /\ \A k \in 1..Len(e) :
                        IF RaisedInTry(r) /\ k = Len(e)
                          THEN e[k].label = <<"Error", "">>
                          ELSE k <= Len(run[r].objects) + 1 /\ e[k].label = ExpectedLabel(r, k - 1)
            /\ (Returned(r) /\ run[r].retval.kind = "lens") =>
                  /\ run[r].objects = <<>>
                  /\ Len(e) = 1
                  /\ e[1].label # <<"Full image (original)", "">>

(* A report of two differently labelled regions whose second crop query    *)
(* raised: full image, first object, Error.                                *)
C4_Witness ==
    \E r \in Runs :
        /\ Returned(r)
        /\ run[r].retval.kind = "report"
        /\ run[r].objects = <<"middle-center", "top-left">>
        /\ Len(run[r].retval.entries) = 3
        /\ run[r].retval.entries[2].label = <<"Object", "middle-center">>
        /\ run[r].retval.entries[3].label = <<"Error", "">>

(* C5: the queries of a run are submitted in a fixed order, the unmodified *)
(* full image first and then the crops by region index 0, 1, 2, ...: the   *)
(* k-th submission is always the k-th payload of that order, so no crop is *)
(* submitted before the full image or before a crop of lower index.        *)
C5_FixedQueryOrder ==
    \A r \in Runs :
        /\ Len(run[r].submitted) <= Len(run[r].objects) + 1
        /\ \A k \in 1..Len(run[r].submitted) :
              run[r].submitted[k] = ExpectedPath(r, k - 1)

(* All four queries of a run with three regions have been submitted. *)
C5_Witness ==
    \E r \in Runs :
        /\ Len(run[r].objects) = 3
        /\ run[r].objects[1] # run[r].objects[3]
        /\ Len(run[r].submitted) = 4

(* C6: at most one query of a run is in flight at any time, and a query is *)
(* submitted only when every earlier one has resolved (returned or         *)
(* raised).                                                                *)
C6_OneQueryInFlight ==
    \A r \in Runs :
        /\ Cardinality(run[r].inflight) <= 1
        /\ Len(run[r].submitted) = Len(run[r].outcome) + Cardinality(run[r].inflight)
        /\ run[r].inflight # {} => run[r].pc \in {"await", "lens_await"}

(* The third query is in flight after the first two have resolved. *)
C6_Witness ==
    \E r \in Runs :
        /\ run[r].inflight = {2}
        /\ Len(run[r].outcome) = 2
        /\ Len(run[r].submitted) = 3

(* The pause after a query (page.wait_for_timeout) raised. *)
PauseRaised(r) == run[r].caught = "Error"

(* C7, as stated: if the full-image query succeeds, the report the run     *)
(* returns has an entry for the full image and for every crop (the result  *)
(* of its query, or the error text of its query).  Stated for the runs     *)
(* that return a value and in which no step other than a query fails.      *)
C7_FullImageSuccessGivesEveryEntry ==
    \A r \in Runs :
        (ReturnedEntries(r) /\ ~PauseRaised(r)
           /\ run[r].outcome # <<>> /\ run[r].outcome[1] = "results") =>
            LET e == run[r].retval.entries
            IN  /\ Len(e) = Len(run[r].objects) + 1
                /\ e[1].text = Text("identification", 0)
                /\ \A k \in 2..Len(e) :
                      \/ e[k] = Entry(ExpectedLabel(r, k - 1),
                                      ExpectedText(run[r].outcome[k], k - 1))
                      \/ e[k].text = Text(run[r].caught, -1)

(* The number of queries of the run that returned a string. *)
NumReturned(r) ==
    Cardinality({k \in 1..Len(run[r].outcome) : run[r].outcome[k] \in BackendPages})

(* C7, amended: if the full-image query succeeds and the run returns a     *)
(* value (browser.close() does not raise), that value is a report whose    *)
(* entry 0 is the full-image result, followed in order by one entry for    *)
(* each crop query that returned, holding its result or the error text it  *)
(* returned; the report covers every crop when nothing raised, and when a  *)
(* crop query or a pause raised it ends with one "Error" entry holding the *)
(* exception text and the crops after that point have no entry.            *)
C7_FullImageSuccessGivesResolvedEntries ==
    \A r \in Runs :
        (Returned(r) /\ run[r].outcome # <<>> /\ run[r].outcome[1] = "results"
           /\ run[r].retval.kind # "raised") =>
            LET f == run[r]
                e == f.retval.entries
            IN  IF f.objects = <<>>
                  THEN /\ f.retval.kind = "lens"
                       /\ Len(e) = 1
                       /\ e[1].text = Text("identification", 0)
                  ELSE /\ f.retval.kind = "report"
                       /\ e[1] = Entry(<<"Full image (original)", "">>, Text("identification", 0))
                       /\ \A k \in 1..NumReturned(r) :
                             e[k] = Entry(ExpectedLabel(r, k - 1), ExpectedText(f.outcome[k], k - 1))
                       /\ IF RaisedInTry(r)
                            THEN /\ Len(e) = NumReturned(r) + 1
                                 /\ e[Len(e)] = Entry(<<"Error", "">>, Text(f.caught, -1))
                            ELSE /\ Len(e) = Len(f.objects) + 1
                                 /\ NumReturned(r) = Len(f.objects) + 1

(* Three crops, the full image and the first crop identified, the second   *)
(* crop query timed out: the report has these two results and the error.   *)
C7_Witness ==
    \E r \in Runs :
        /\ Returned(r)
        /\ Len(run[r].objects) = 3
        /\ run[r].outcome = <<"results", "results", "TimeoutError">>
        /\ run[r].retval.kind = "report"
        /\ Len(run[r].retval.entries) = 3
        /\ run[r].retval.entries[3] = Entry(<<"Error", "">>, Text("TimeoutError", -1))

(* C8: in every run the temporary directory and the browser session are   *)
(* each acquired at most once; by the time the run returns, each one that  *)
(* was acquired has been released exactly once (one shutil.rmtree of the   *)
(* directory; the browser closed once and the Playwright driver stopped),  *)
(* also after a failure while writing crops or in a query; and every query *)
(* runs in that one session, while it is open.                             *)
C8_AcquiredOnceReleasedOnce ==
    \A r \in Runs :
        LET f == run[r]
        IN  /\ f.nMkdtemp <= 1
            /\ f.nLaunch <= 1
            /\ f.nRmtree <= f.nMkdtemp
            /\ f.nClose <= f.nLaunch
            /\ (f.browser = "open") <=> (f.nLaunch = 1 /\ f.nClose = 0)
            /\ f.browser = "open" => f.pw = "open"
            /\ f.inflight # {} => (f.browser = "open" /\ f.nLaunch = 1)
            /\ f.submitted # <<>> => f.nLaunch = 1
            /\ Returned(r) =>
                  /\ f.nRmtree = f.nMkdtemp
                  /\ f.nClose = f.nLaunch
                  /\ f.browser # "open"
                  /\ f.pw # "open"

(* A run whose crop query raised: one directory and one session, each      *)
(* released once.                                                          *)
C8_Witness ==
    \E r \in Runs :
        /\ Returned(r)
        /\ run[r].caught = "TimeoutError"
        /\ Len(run[r].submitted) = 2
        /\ run[r].nMkdtemp = 1 /\ run[r].nRmtree = 1
        /\ run[r].nLaunch = 1 /\ run[r].nClose = 1
        /\ run[r].browser = "closed" /\ run[r].pw = "closed"

(* C9: if the input file is missing or cannot be decoded, the run returns  *)
(* a single explanatory error message, and it never creates a temporary    *)
(* directory, opens a session or submits a query.                          *)
C9_BadInputFailsBeforeResources ==
    \A r \in Runs :
        LET f == run[r]
        IN  (f.pc # "idle" /\ (~f.input.isfile \/ ~f.input.decodable)) =>
              /\ f.nMkdtemp = 0
              /\ f.temp_dir = ""
              /\ f.pw = "none" /\ f.browser = "none" /\ f.nLaunch = 0
              /\ f.submitted = <<>>
              /\ f.crop_files = <<>>
              /\ f.pc \in {"check_url", "import_cv2", "check_file", "detect", "imread", "returned"}
              /\ Returned(r) =>
                    /\ f.retval.kind = "message"
                    /\ f.retval.entries = <<>>
                    /\ (f.input.cv2 /\ ~f.input.url) =>
                          f.retval.msg = IF f.input.isfile THEN "Could not read image"
                                                           ELSE "File not found"

(* A run on an existing file that cannot be decoded has returned. *)
C9_Witness ==
    \E r \in Runs :
        /\ Returned(r)
        /\ run[r].input.cv2 /\ run[r].input.isfile /\ ~run[r].input.decodable
        /\ run[r].retval = Message("Could not read image")
        /\ dirs = {}

(* The detector ran on a decodable image and found no region. *)
ZeroRegions(r) ==
    /\ run[r].pc \notin {"idle", "check_url", "import_cv2", "check_file", "detect"}
    /\ run[r].input.cv2 /\ run[r].input.isfile /\ run[r].input.decodable
    /\ run[r].objects = <<>>

(* C10, as stated: with zero regions the run issues exactly one query, for *)
(* the full image, writes no crop, and its report has exactly one entry.   *)
(* Stated for the runs that got as far as making their directory.          *)
C10_ZeroRegionsOneQuery ==
    \A r \in Runs :
        (Returned(r) /\ ZeroRegions(r) /\ MadeTempDir(r)) =>
            /\ run[r].submitted = << <<"input", -1, "file_path">> >>
            /\ run[r].crop_files = <<>>
            /\ Len(run[r].retval.entries) = 1

(* C10, amended: with zero regions the run writes no crop, issues no crop  *)
(* query and at most one query, for the full image; it issues exactly that *)
(* one query, and the value has exactly one entry, whenever the run        *)
(* returns a value, that is unless mkdtemp, the launch of the browser      *)
(* session or browser.close() raises.                                      *)
C10_ZeroRegionsAtMostOneQuery ==
    \A r \in Runs :
        ZeroRegions(r) =>
            /\ run[r].crop_files = <<>>
            /\ \A p \in files : p[1] # run[r].temp_dir
            /\ run[r].results = <<>>
            /\ Len(run[r].submitted) <= 1
            /\ \A k \in 1..Len(run[r].submitted) :
                  run[r].submitted[k] = <<"input", -1, "file_path">>
            /\ (Returned(r) /\ run[r].retval.kind # "raised") =>
                  /\ Len(run[r].submitted) = 1
                  /\ run[r].retval.kind = "lens"
                  /\ Len(run[r].retval.entries) = 1

(* A run with zero regions returned the result of its single query. *)
C10_Witness ==
    \E r \in Runs :
        /\ Returned(r)
        /\ ZeroRegions(r)
        /\ run[r].outcome = <<"results">>
        /\ run[r].retval.kind = "lens"
        /\ Len(run[r].retval.entries) = 1
        /\ Len(run[r].submitted) = 1

(* ---------------------------------------------------------------------- *)
(* Further properties of _do_google_lens_detect                            *)
(* ---------------------------------------------------------------------- *)

(* C15: no query is resubmitted: in one run the full image and each crop   *)
(* are each submitted at most once, also when their query failed; no two   *)
(* submissions of a run carry the same payload.                            *)
C15_NoResubmission ==
    \A r \in Runs :
        \A j, k \in 1..Len(run[r].submitted) :
            j # k => run[r].submitted[j] # run[r].submitted[k]

(* A run of two equally labelled crops returned after the full-image query *)
(* met Lens' error page and the second crop query timed out: three         *)
(* submissions, one per payload.                                           *)
C15_Witness ==
    \E r \in Runs :
        /\ Returned(r)
        /\ run[r].objects = <<"top-left", "top-left">>
        /\ run[r].outcome = <<"error_page", "results", "TimeoutError">>
        /\ Len(run[r].submitted) = 3

(* What the run had to hand to its caller when it reached the finally      *)
(* clause that removes the directory, told from what it did before.        *)
ValueBeforeCleanup(r) ==
    LET f == run[r]
        last == f.outcome[Len(f.outcome)]
    IN  IF f.exc # "none" THEN [kind |-> "raised", msg |-> f.exc, count |-> 0, entries |-> <<>>]
        ELSE IF f.mode = "lens"
               THEN IF last \in BackendPages THEN LensValue(last) ELSE LensFailedValue(last)
               ELSE [kind |-> "report", msg |-> "", count |-> Len(f.crop_files),
                     entries |-> f.results]

(* C16: a failure to remove the temporary directory is never surfaced and  *)
(* never changes the outcome of the run: the value or exception a run that *)
(* made its directory produces is the one it had before the removal,       *)
(* whether the removal succeeded or failed.                                *)
C16_RmtreeFailureNotSurfaced ==
    \A r \in Runs :
        (Returned(r) /\ MadeTempDir(r)) =>
            /\ run[r].retval = ValueBeforeCleanup(r)
            /\ run[r].retval.kind = "raised" => run[r].retval.msg = run[r].exc

(* A run returned its report of three entries although the removal of its  *)
(* directory failed.                                                       *)
C16_Witness ==
    \E r \in Runs :
        /\ Returned(r)
        /\ run[r].rmtreeFailed
        /\ run[r].temp_dir \in dirs
        /\ run[r].retval.kind = "report"
        /\ Len(run[r].retval.entries) = 3

(* C17, as stated: a URL-form input is rejected by the detection pipeline  *)
(* and routed to the single-query identification path: the call creates no *)
(* temporary directory and what it returns is the result of that path.     *)
C17_UrlRoutedToSingleQueryPath ==
    \A r \in Runs :
        (Returned(r) /\ run[r].input.url) =>
            /\ run[r].nMkdtemp = 0
            /\ run[r].retval.kind = "lens"

(* C17, amended: a URL-form input to google_lens_detect is rejected with a *)
(* message that names google_lens as the tool for URLs; the call is not    *)
(* passed on to any identification path: it creates no temporary           *)
(* directory, opens no session and submits no query at all.                *)
C17_UrlRejectedWithMessage ==
    \A r \in Runs :
        LET f == run[r]
        IN  (f.pc # "idle" /\ f.input.url) =>
              /\ f.pc \in {"check_url", "returned"}
              /\ f.nMkdtemp = 0 /\ f.temp_dir = ""
              /\ f.pw = "none" /\ f.browser = "none" /\ f.nLaunch = 0
              /\ f.submitted = <<>>
              /\ f.crop_files = <<>>
              /\ f.mode # "lens"
              /\ Returned(r) =>
                    f.retval = [kind |-> "message",
                                msg |-> "google_lens_detect only works with local files. Use google_lens for URLs.",
                                count |-> 0, entries |-> <<>>]

(* A call with a URL has returned its message. *)
C17_Witness ==
    \E r \in Runs :
        /\ Returned(r)
        /\ run[r].input.url
        /\ run[r].retval.kind = "message"
        /\ run[r].submitted = <<>>
        /\ dirs = {}

(* C18, as stated: every report of a run with N detected objects states N  *)
(* in its header and has exactly N+1 sections, one per query in the fixed  *)
(* order, on every path that returns a report.                             *)
C18_ReportHasHeaderAndAllSections ==
    \A r \in Runs :
        (Returned(r) /\ run[r].retval.kind = "report") =>
            /\ run[r].retval.count = Len(run[r].objects)
            /\ Len(run[r].retval.entries) = Len(run[r].objects) + 1

(* C18, amended: every report of a run with N detected objects states N in *)
(* its header; when no exception was raised in the session it has exactly  *)
(* N+1 sections, one per query in the fixed order; when a query or the     *)
(* pause after one raised, it has one section per query that returned, in  *)
(* the fixed order, and a last section "Error", between 1 and N+2 sections *)
(* in all.                                                                 *)
C18_ReportHasHeaderAndReturnedSections ==
    \A r \in Runs :
        (Returned(r) /\ run[r].retval.kind = "report") =>
            LET f == run[r]
                e == f.retval.entries
                n == Len(f.objects)
            IN  /\ n >= 1
                /\ f.retval.count = n
                /\ ~RaisedInTry(r) =>
                      /\ Len(e) = n + 1
                      /\ \A k \in 1..Len(e) : e[k].label = ExpectedLabel(r, k - 1)
                /\ RaisedInTry(r) =>
                      /\ Len(e) = NumReturned(r) + 1
                      /\ 1 <= Len(e) /\ Len(e) <= n + 2
                      /\ e[Len(e)].label = <<"Error", "">>
                      /\ \A k \in 1..(Len(e) - 1) : e[k].label = ExpectedLabel(r, k - 1)

(* A report of N+2 sections: both queries of a run with one crop returned  *)
(* and the pause after the last one raised.                                *)
C18_Witness ==
    \E r \in Runs :
        /\ Returned(r)
        /\ run[r].retval.kind = "report"
        /\ Len(run[r].objects) = 1
        /\ run[r].retval.count = 1
        /\ Len(run[r].retval.entries) = 3
        /\ run[r].retval.entries[3].label = <<"Error", "">>

(* ---------------------------------------------------------------------- *)
(* Properties of concurrent invocations                                    *)
(* ---------------------------------------------------------------------- *)

(* The run holds a temporary directory it has not yet tried to remove. *)
HoldsTempDir(r) == MadeTempDir(r) /\ ~Returned(r)

(* C14: two runs executing concurrently do not interfere: while both hold  *)
(* a temporary directory the two directories are distinct; the directory   *)
(* of a run and the crop files it wrote exist until the run's own cleanup, *)
(* and nothing else is written into it; the session of a run is open       *)
(* whenever the run has a query in flight and is closed by that run only;  *)
(* and every result of a run is the answer to its own query.               *)
C14_ConcurrentRunsDoNotInterfere ==
    \A r \in Runs :
        LET f == run[r]
        IN  /\ \A o \in Runs \ {r} :
                  (HoldsTempDir(r) /\ HoldsTempDir(o)) => f.temp_dir # run[o].temp_dir
            /\ HoldsTempDir(r) =>
                  /\ f.temp_dir \in dirs
                  /\ \A k \in 1..Len(f.crop_files) :
                        /\ f.crop_files[k].path \in files
                        /\ f.crop_files[k].path[1] = f.temp_dir
                  /\ \A p \in files :
                        p[1] = f.temp_dir =>
                            \E k \in 1..Len(f.crop_files) : f.crop_files[k].path = p
            /\ f.inflight # {} => (f.browser = "open" /\ f.pw = "open")
            /\ (f.browser = "open") <=> (f.nLaunch = 1 /\ f.nClose = 0)
            /\ f.mode = "detect" =>
                  \A k \in 1..Len(f.outcome) :
                      f.outcome[k] \in BackendPages =>
                          f.results[k] = Entry(ExpectedLabel(r, k - 1),
                                               ExpectedText(f.outcome[k], k - 1))

(* One run has removed its directory and closed its session while the      *)
(* other, with a crop of the same name, has its crop query in flight.      *)
C14_Witness ==
    \E r \in Runs :
        \E o \in Runs \ {r} :
            /\ run[r].pc = "await"
            /\ run[r].inflight = {1}
            /\ run[r].browser = "open"
            /\ run[r].crop_files[1].path \in files
            /\ Returned(o)
            /\ Len(run[o].crop_files) = 1
            /\ run[o].nRmtree = 1
            /\ ~run[o].rmtreeFailed
            /\ run[o].nClose = 1
            /\ run[o].temp_dir # run[r].temp_dir

(* ---------------------------------------------------------------------- *)
(* Properties of _detect_objects                                           *)
(* ---------------------------------------------------------------------- *)

(* _detect_objects has returned. *)
Detected(r) == run[r].pc = "detected"

(* C11: for every image, _detect_objects returns at most MAX_OBJECTS = 4   *)
(* regions (one crop, and so one crop entry of the report, per region):    *)
(* its result list never holds more, and what it returns has one region    *)
(* for each of the first MAX_OBJECTS merged boxes.                         *)
C11_AtMostMaxObjects ==
    \A r \in Runs :
        /\ Len(run[r].det_results) <= MAX_OBJECTS
        /\ Len(run[r].det_results) <= 4
        /\ Detected(r) =>
              Len(run[r].det_results) = Min(Len(run[r].merged), MAX_OBJECTS)

(* Five boxes stayed unmerged and four regions were returned. *)
C11_Witness ==
    \E r \in Runs :
        /\ Detected(r)
        /\ Len(run[r].merged) = 5
        /\ Len(run[r].det_results) = 4


Range(s) == {s[k] : k \in DOMAIN s}

(* The merge loop of _detect_objects has ended. *)
Merged(r) == run[r].pc \in {"det_pad", "detected"} /\ run[r].boxes # <<>>

(* Two boxes whose intersection exceeds 0.3 of the area of the smaller. *)
OverlapExceeds(a, b) == 10 * Overlap(a, b) > 3 * Min(a.w * a.h, b.w * b.h)

(* C12: merge idempotence: running the merge step on the output of the     *)
(* merge step yields the same set of boxes, that is, no two of the boxes   *)
(* the merge step put out intersect in more than 0.3 of the area of the    *)
(* smaller of the two.                                                     *)
C12_MergeIdempotent ==
    \A r \in Runs :
        Merged(r) =>
            /\ Range(MergeBoxes(run[r].merged)) = Range(run[r].merged)
            /\ \A j, k \in 1..Len(run[r].merged) :
                  j # k => ~OverlapExceeds(run[r].merged[j], run[r].merged[k])


(* C13: padding containment: every region _detect_objects puts in its      *)
(* result for an image of width W and height H has 0 <= x, 0 <= y,         *)
(* x + w <= W and y + h <= H, so every crop lies within the image.         *)
C13_PaddedRegionInsideImage ==
    \A r \in Runs :
        \A k \in 1..Len(run[r].det_results) :
            LET c == run[r].det_results[k]
            IN  /\ 0 <= c.x
                /\ 0 <= c.y
                /\ c.x + c.w <= ImageW
                /\ c.y + c.h <= ImageH

(* A returned region whose merged box, grown by its pad, would cross the   *)
(* right and the bottom edge of the image and was clamped to them.         *)
C13_Witness ==
    \E r \in Runs :
        /\ Detected(r)
        /\ \E k \in 1..Len(run[r].det_results) :
              LET c == run[r].det_results[k]
                  m == run[r].merged[k]
              IN  /\ m.x + m.w + (m.w \div 10) > ImageW
                  /\ m.y + m.h + (m.h \div 10) > ImageH
                  /\ m.w \div 10 > 0
                  /\ c.x + c.w = ImageW
                  /\ c.y + c.h = ImageH
                  /\ c.x > 0


(* The smallest rectangle that contains the boxes of indices S. *)
BoundingUnion(boxes, S) ==
    LET left == CHOOSE v \in {boxes[k].x : k \in S} : \A k \in S : v <= boxes[k].x
        top == CHOOSE v \in {boxes[k].y : k \in S} : \A k \in S : v <= boxes[k].y
        right == CHOOSE v \in {boxes[k].x + boxes[k].w : k \in S} :
                     \A k \in S : v >= boxes[k].x + boxes[k].w
        bottom == CHOOSE v \in {boxes[k].y + boxes[k].h : k \in S} :
                     \A k \in S : v >= boxes[k].y + boxes[k].h
    IN  [x |-> left, y |-> top, w |-> right - left, h |-> bottom - top]

(* Rectangle a lies within rectangle b. *)
Within(a, b) ==
    /\ b.x <= a.x
    /\ b.y <= a.y
    /\ a.x + a.w <= b.x + b.w
    /\ a.y + a.h <= b.y + b.h

(* C19: when the merge step is given two boxes alone and their             *)
(* intersection exceeds 0.3 of the area of the smaller, it puts out        *)
(* exactly one box, the bounding union of the two.                         *)
C19_TwoOverlappingBoxesBecomeTheirUnion ==
    \A r \in Runs :
        (Merged(r) /\ Len(run[r].boxes) = 2
           /\ OverlapExceeds(run[r].boxes[1], run[r].boxes[2])) =>
            run[r].merged = << BoundingUnion(run[r].boxes, {1, 2}) >>

(* Two boxes that share 0.4 of the area of the smaller were merged into    *)
(* one box larger than either.                                             *)
C19_Witness ==
    \E r \in Runs :
        /\ Merged(r)
        /\ Len(run[r].boxes) = 2
        /\ 10 * Overlap(run[r].boxes[1], run[r].boxes[2]) = 4 * run[r].boxes[2].area
        /\ Len(run[r].merged) = 1
        /\ run[r].merged[1].w * run[r].merged[1].h > run[r].boxes[1].area

(* C20: after the merge step, before the cap, the merged boxes partition   *)
(* the raw boxes: every raw box is the anchor of exactly one merged box or *)
(* was absorbed into exactly one; each merged box is the bounding union of *)
(* its anchor and the boxes it absorbed, so every raw box lies within its  *)
(* merged box.                                                             *)
C20_MergedBoxesPartitionRawBoxes ==
    \A r \in Runs :
        Merged(r) =>
            LET f == run[r]
                n == Len(f.boxes)
            IN  /\ Len(f.absorbed) = Len(f.merged)
                /\ f.used = 1..n
                /\ \A b \in 1..n :
                      Cardinality({k \in 1..Len(f.merged) : b \in f.absorbed[k]}) = 1
                /\ \A k \in 1..Len(f.merged) :
                      /\ f.absorbed[k] # {}
                      /\ f.absorbed[k] \subseteq 1..n
                      /\ f.merged[k] = BoundingUnion(f.boxes, f.absorbed[k])
                      /\ \A b \in f.absorbed[k] : Within(f.boxes[b], f.merged[k])
                /\ f.merged = MergeFrom(f.boxes, 1, {}, <<>>)

(* Five raw boxes of which one anchor absorbed two and two stayed alone. *)
C20_Witness ==
    \E r \in Runs :
        /\ Merged(r)
        /\ Len(run[r].boxes) = 5
        /\ Len(run[r].merged) = 3
        /\ Cardinality(run[r].absorbed[1]) = 3
        /\ run[r].merged[1] # [x |-> run[r].boxes[1].x, y |-> run[r].boxes[1].y,
                                w |-> run[r].boxes[1].w, h |-> run[r].boxes[1].h]


(* The index in the sorted boxes of the anchor of the k-th merged box: the *)
(* first of the boxes it took.                                             *)
AnchorIndex(r, k) ==
    CHOOSE j \in run[r].absorbed[k] : \A j2 \in run[r].absorbed[k] : j <= j2

(* The raw area of the anchor of the k-th merged box. *)
AnchorArea(r, k) == run[r].boxes[AnchorIndex(r, k)].area

(* C21: when more than MAX_OBJECTS merged boxes exist, the regions         *)
(* returned are those of the 4 merges processed first, in that order; the  *)
(* anchors of the kept boxes come in descending order of raw area, and the *)
(* anchor of every dropped box is no larger than the anchor of each kept   *)
(* box, so the kept ones have the 4 largest anchor areas.                  *)
C21_CapKeepsLargestAnchors ==
    \A r \in Runs :
        (Detected(r) /\ Len(run[r].merged) > MAX_OBJECTS) =>
            /\ Len(run[r].det_results) = 4
            /\ \A k \in 1..4 :
                  run[r].det_results[k] = PadAndLabel(run[r].merged[k], ImageW, ImageH)
            /\ \A k, k2 \in 1..Len(run[r].merged) :
                  k < k2 => AnchorIndex(r, k) < AnchorIndex(r, k2)
            /\ \A k, k2 \in 1..4 : k < k2 => AnchorArea(r, k) >= AnchorArea(r, k2)
            /\ \A k \in 1..4 : \A d \in 5..Len(run[r].merged) :
                  AnchorArea(r, d) <= AnchorArea(r, k)

(* Five merged boxes with anchors of different areas, the smallest anchor  *)
(* found first among the contours and dropped; four regions were returned. *)
C21_Witness ==
    \E r \in Runs :
        /\ Detected(r)
        /\ Len(run[r].merged) = 5
        /\ Len(run[r].det_results) = 4
        /\ AnchorArea(r, 1) > AnchorArea(r, 5)
        /\ BoundingBox(run[r].contours[1]) = run[r].boxes[AnchorIndex(r, 5)]


(* The merged box m grown by the pad of 10% of its width on the left and   *)
(* on the right and of 10% of its height on the top and on the bottom,     *)
(* intersected with the image rectangle [0, w) x [0, h).                   *)
ClampedSymmetricExpansion(m, w, h) ==
    LET pad_x == m.w \div 10
        pad_y == m.h \div 10
        x0 == Max(0, m.x - pad_x)
        y0 == Max(0, m.y - pad_y)
        x1 == Min(w, m.x + m.w + pad_x)
        y1 == Min(h, m.y + m.h + pad_y)
    IN  Rect(x0, y0, x1 - x0, y1 - y0)

(* C22: for every merged box, the padded box returned is the merged box    *)
(* expanded symmetrically by the pad and then clamped to the image: it     *)
(* equals the intersection of the symmetric expansion with the image       *)
(* rectangle, also when the expansion crosses the left or top edge.        *)
C22_PaddedBoxIsClampedSymmetricExpansion ==
    \A r \in Runs :
        \A k \in 1..Len(run[r].det_results) :
            LET c == run[r].det_results[k]
            IN  Rect(c.x, c.y, c.w, c.h) =
                    ClampedSymmetricExpansion(run[r].merged[k], ImageW, ImageH)


(* The 9 labels, each with its vertical and its horizontal part. *)
PositionTable ==
    {<<"top", "left", "top-left">>, <<"top", "center", "top-center">>,
     <<"top", "right", "top-right">>, <<"middle", "left", "middle-left">>,
     <<"middle", "center", "middle-center">>, <<"middle", "right", "middle-right">>,
     <<"bottom", "left", "bottom-left">>, <<"bottom", "center", "bottom-center">>,
     <<"bottom", "right", "bottom-right">>}

(* The band of a normalized centre n / d: below 0.33, below 0.66 or not. *)
Band(n, d, low, mid, high) ==
    IF 100 * n < 33 * d THEN low ELSE IF 100 * n < 66 * d THEN mid ELSE high

(* C23: the label of every region returned is "<vertical>-<horizontal>"    *)
(* computed from the normalized centre (cx, cy) of the region's box:       *)
(* vertical is top if cy < 0.33, middle if cy < 0.66, else bottom;         *)
(* horizontal is left if cx < 0.33, center if cx < 0.66, else right; so    *)
(* the label is one of the 9 combinations.                                 *)
C23_LabelFromNormalizedCentre ==
    \A r \in Runs :
        \A k \in 1..Len(run[r].det_results) :
            LET c == run[r].det_results[k]
                vertical == Band(2 * c.y + c.h, 2 * ImageH, "top", "middle", "bottom")
                horizontal == Band(2 * c.x + c.w, 2 * ImageW, "left", "center", "right")
            IN  /\ <<vertical, horizontal, c.label>> \in PositionTable
                /\ c.label \in {t[3] : t \in PositionTable}

(* Regions of the three vertical and the three horizontal bands were       *)
(* returned for one image.                                                 *)
C23_Witness ==
    \E r \in Runs :
        /\ Detected(r)
        /\ {"top-center", "middle-right", "bottom-left"}
               \subseteq {run[r].det_results[k].label : k \in 1..Len(run[r].det_results)}


(* The contours of the run have been filtered. *)
Filtered(r) == run[r].pc \in {"det_sort", "det_merge", "det_pad", "detected"}

(* C24: every raw box handed to the merge step has an area between         *)
(* min_area_ratio (0.02) times the image area and 0.95 times the image     *)
(* area; a contour whose box is smaller than the lower bound or larger     *)
(* than the upper bound is not among the boxes that are merged and         *)
(* cropped, and every merged box is the bounding box of boxes in range.    *)
C24_RawBoxAreasInRange ==
    \A r \in Runs :
        Filtered(r) =>
            LET f == run[r]
                total == ImageW * ImageH
            IN  /\ \A k \in 1..Len(f.boxes) :
                      /\ 100 * f.boxes[k].area >= 2 * total
                      /\ 100 * f.boxes[k].area <= 95 * total
                /\ \A j \in 1..Len(f.contours) :
                      LET b == BoundingBox(f.contours[j])
                      IN  (100 * b.area < 2 * total \/ 100 * b.area > 95 * total) =>
                              \A k \in 1..Len(f.boxes) : f.boxes[k] # b
                /\ \A k \in 1..Len(f.merged) :
                      /\ f.absorbed[k] \subseteq 1..Len(f.boxes)
                      /\ f.merged[k] = BoundingUnion(f.boxes, f.absorbed[k])

(* An image with a contour too small, the contour of the whole frame and   *)
(* a contour in range: one region was returned.                            *)
C24_Witness ==
    \E r \in Runs :
        /\ Detected(r)
        /\ Len(run[r].contours) = 3
        /\ Rect(0, 0, 3, 3) \in Range(run[r].contours)
        /\ Rect(0, 0, ImageW, ImageH) \in Range(run[r].contours)
        /\ Len(run[r].boxes) = 1
        /\ Len(run[r].det_results) = 1


(* C28: for every merged box inside the image, the padded and clamped box  *)
(* has positive width and height and contains the whole merged box         *)
(* (x' <= x, y' <= y, x' + w' >= x + w, y' + h' >= y + h): padding and     *)
(* clamping cut off no part of a detected region and give no empty crop.   *)
C28_PaddedBoxContainsMergedBox ==
    \A r \in Runs :
        \A k \in 1..Len(run[r].det_results) :
            LET c == run[r].det_results[k]
                m == run[r].merged[k]
            IN  (m.x >= 0 /\ m.y >= 0 /\ m.x + m.w <= ImageW /\ m.y + m.h <= ImageH) =>
                    /\ c.w > 0
                    /\ c.h > 0
                    /\ c.x <= m.x
                    /\ c.y <= m.y
                    /\ c.x + c.w >= m.x + m.w
                    /\ c.y + c.h >= m.y + m.h

(* A merged box that touches the right edge of the image: the pad was      *)
(* added on its left and clamped away on its right, where the region ends  *)
(* with the box; another region of the image was clamped at the top.       *)
C28_Witness ==
    \E r \in Runs :
        /\ Detected(r)
        /\ \E k \in 1..Len(run[r].det_results) :
              /\ run[r].det_results[k].x < run[r].merged[k].x
              /\ run[r].merged[k].x + run[r].merged[k].w = ImageW
              /\ run[r].det_results[k].x + run[r].det_results[k].w = ImageW
        /\ \E k \in 1..Len(run[r].det_results) :
              /\ run[r].merged[k].y = 0
              /\ run[r].det_results[k].y = 0
              /\ run[r].det_results[k].h > run[r].merged[k].h


(* The boxes the anchor of the n-th comparison had absorbed before it. *)
AbsorbedBefore(r, n) ==
    {run[r].compared[p].j : p \in {p \in 1..(n - 1) :
        /\ run[r].compared[p].i = run[r].compared[n].i
        /\ run[r].compared[p].absorbed}}

(* C30: in every comparison of the merge step the smaller of the two       *)
(* areas is the candidate box's own area; the candidate is absorbed        *)
(* exactly when its intersection with the bounds the anchor has at that    *)
(* moment, grown by all it absorbed before, exceeds 0.3 times the          *)
(* candidate's area; the bounds compared against are never the anchor's    *)
(* original bounds once it has grown.                                      *)
C30_SmallerAreaIsCandidateArea ==
    \A r \in Runs :
        \A n \in 1..Len(run[r].compared) :
            LET e == run[r].compared[n]
                candidate == run[r].boxes[e.j]
                current == BoundingUnion(run[r].boxes, {e.i} \cup AbsorbedBefore(r, n))
            IN  /\ e.i < e.j
                /\ e.smaller_area = candidate.area
                /\ e.m = current
                /\ e.absorbed <=> (10 * Overlap(current, candidate) > 3 * candidate.area)

(* A candidate absorbed by a grown anchor whose original bounds it does    *)
(* not even touch.                                                         *)
C30_Witness ==
    \E r \in Runs :
        \E n \in 1..Len(run[r].compared) :
            LET e == run[r].compared[n]
                anchor == run[r].boxes[e.i]
            IN  /\ e.absorbed
                /\ AbsorbedBefore(r, n) # {}
                /\ e.m # Rect(anchor.x, anchor.y, anchor.w, anchor.h)
                /\ Overlap(anchor, run[r].boxes[e.j]) = 0


(* A query of the multi-query path of the run raised. *)
QueryRaised(r) ==
    /\ run[r].mode = "detect"
    /\ run[r].caught \in QueryExceptions

(* C26: if a query of the multi-query path raises, no further query of     *)
(* the run is submitted; once the handler has run the entries are those    *)
(* of the queries resolved before, unchanged, followed by exactly one      *)
(* entry labelled "Error" that carries the exception text; these are the   *)
(* entries of the report the run returns; and the session is closed by     *)
(* the time the run returns.                                               *)
C26_QueryExceptionEndsQueryingWithOneErrorEntry ==
    \A r \in Runs :
        QueryRaised(r) =>
            LET f == run[r]
                n == Len(f.outcome)
            IN  /\ f.pc \in {"except"} \cup AfterTry
                /\ f.inflight = {}
                /\ Len(f.submitted) = n
                /\ f.outcome[n] = f.caught
                /\ \A k \in 1..n : f.submitted[k] = ExpectedPath(r, k - 1)
                /\ \A k \in 1..(n - 1) :
                      f.results[k] = Entry(ExpectedLabel(r, k - 1),
                                           ExpectedText(f.outcome[k], k - 1))
                /\ f.pc = "except" => Len(f.results) = n - 1
                /\ f.pc \in AfterTry =>
                      /\ Len(f.results) = n
                      /\ f.results[n] = Entry(ErrorLabel, Text(f.caught, -1))
                      /\ Cardinality({k \in 1..n : f.results[k].label = ErrorLabel}) = 1
                /\ Returned(r) =>
                      /\ f.browser = "closed"
                      /\ f.pw = "closed"
                      /\ f.nClose = 1
                      /\ f.retval.kind \in {"report", "raised"}
                      /\ f.retval.kind = "report" => f.retval.entries = f.results

(* The third of five queries timed out: the report returned has the two    *)
(* entries of the queries before it and the error entry, and two crops     *)
(* were never submitted.                                                   *)
C26_Witness ==
    \E r \in Runs :
        /\ QueryRaised(r)
        /\ Returned(r)
        /\ Len(run[r].objects) = 4
        /\ Len(run[r].submitted) = 3
        /\ run[r].retval.kind = "report"
        /\ Len(run[r].retval.entries) = 3
        /\ run[r].retval.entries[3].label = ErrorLabel
        /\ run[r].browser = "closed"


(* The crop files of the run all exist, in its temporary directory. *)
CropFilesExist(r) ==
    /\ run[r].temp_dir \in dirs
    /\ \A k \in 1..Len(run[r].crop_files) : run[r].crop_files[k].path \in files

(* The positions of the session of the multi-query path, from the first    *)
(* submission to the closing of the browser.                               *)
InSession == {"submit", "await", "pause", "except", "close"}

(* While the run is in its session its crop files exist, and a crop query  *)
(* in flight has its file; once the removal has been attempted the run has *)
(* returned with every submitted query resolved and the session closed.    *)
CropsOutliveQueries ==
    \A r \in Runs :
        /\ (run[r].mode = "detect" /\ run[r].pc \in InSession) => CropFilesExist(r)
        /\ \A q \in run[r].inflight :
              q >= 1 => /\ run[r].submitted[Len(run[r].submitted)] = run[r].crop_files[q].path
                        /\ run[r].crop_files[q].path \in files
        /\ run[r].nRmtree >= 1 =>
              /\ Returned(r)
              /\ run[r].inflight = {}
              /\ Len(run[r].outcome) = Len(run[r].submitted)
              /\ run[r].browser # "open"
              /\ run[r].pw # "open"

(* A step that removes the temporary directory or a crop file of the run   *)
(* is taken with no query in flight, every submitted query resolved and    *)
(* the session closed, and the run returns with it.                        *)
RemovalAfterSession ==
    \A r \in Runs :
        (MadeTempDir(r) /\ CropFilesExist(r) /\ ~CropFilesExist(r)') =>
            /\ run[r].inflight = {}
            /\ Len(run[r].outcome) = Len(run[r].submitted)
            /\ run[r].browser # "open"
            /\ run[r].pw # "open"
            /\ run'[r].pc = "returned"

(* C27: every crop query is submitted while its crop file exists; the      *)
(* temporary directory is removed only after the last query of the run has *)
(* resolved and the session has been closed, never between two queries.    *)
C27_CropsExistUntilSessionClosed ==
    []CropsOutliveQueries /\ [][RemovalAfterSession]_vars

(* The second crop query is in flight, after the full image and the first  *)
(* crop were answered, and its file exists.                                *)
C27_Witness ==
    \E r \in Runs :
        /\ run[r].pc = "await"
        /\ run[r].inflight = {2}
        /\ Len(run[r].outcome) = 2
        /\ run[r].crop_files[2].path \in files
        /\ run[r].nRmtree = 0


(* Every run that was started eventually returns to its caller. *)
EveryRunReturns == \A r \in Runs : (run[r].pc # "idle") ~> Returned(r)

(* The session of the run is closed: neither its browser nor its driver    *)
(* is open.                                                                *)
SessionClosed(r) == run[r].browser # "open" /\ run[r].pw # "open"

(* No payload was submitted twice by the run. *)
NoCropTwice(r) ==
    \A j, k \in 1..Len(run[r].submitted) :
        j # k => run[r].submitted[j] # run[r].submitted[k]

(* C29, as stated: every run of the pipeline eventually returns to its     *)
(* caller, and when it has returned the session it opened is closed and    *)
(* the temporary directory it created has been removed; the run never      *)
(* submits the same crop twice.                                            *)
C29_ReturnsWithSessionClosedAndDirRemoved ==
    /\ EveryRunReturns
    /\ [](\A r \in Runs :
            /\ NoCropTwice(r)
            /\ Returned(r) => (SessionClosed(r) /\ (MadeTempDir(r) => TempDirGone(r))))

(* C29, amended: every run of the pipeline eventually returns to its       *)
(* caller, and when it has returned the session it opened is closed and    *)
(* the removal of the temporary directory it created has been attempted    *)
(* once: the directory is gone unless that removal failed; the run never   *)
(* submits the same crop twice.                                            *)
C29_ReturnsWithSessionClosedAndRemovalAttempted ==
    /\ EveryRunReturns
    /\ [](\A r \in Runs :
            /\ NoCropTwice(r)
            /\ Returned(r) =>
                  /\ SessionClosed(r)
                  /\ MadeTempDir(r) =>
                        /\ run[r].nRmtree = 1
                        /\ ~run[r].rmtreeFailed => TempDirGone(r))

(* A run that queried the full image and two crops has returned its        *)
(* report; its session is closed and its directory is gone.                *)
C29_Witness ==
    \E r \in Runs :
        /\ Returned(r)
        /\ run[r].retval.kind = "report"
        /\ Len(run[r].submitted) = 3
        /\ run[r].nLaunch = 1
        /\ SessionClosed(r)
        /\ MadeTempDir(r)
        /\ TempDirGone(r)


(* _lens_upload_in_session has returned its string. *)
Answered(r) == run[r].pc = "answered"

(* The page gave a description or at least one match. *)
Extracted(d) == d.ai_overview # <<>> \/ d.visual_matches # <<>>

(* C25: for every scraped page, with none, some or all of description,     *)
(* matches and raw text present, the string returned holds the raw-text    *)
(* fallback only if neither a description nor a match was extracted; when  *)
(* a description or a match is present no raw text appears and the string  *)
(* holds the description and the heading of the matches; when nothing at   *)
(* all is present the string is the fixed "Could not identify this         *)
(* object." and not the empty string; the string is empty only for a page  *)
(* without description and matches whose raw text is all whitespace.       *)
C25_RawTextOnlyWithoutDescriptionAndMatches ==
    \A r \in Runs :
        Answered(r) =>
            LET d == run[r].data
                reply == run[r].reply
            IN  /\ "r" \in Range(reply) => ~Extracted(d)
                /\ Extracted(d) =>
                      /\ reply # <<>>
                      /\ RawChars \cap Range(reply) \subseteq {"\n"}
                      /\ d.ai_overview # <<>> =>
                            SubSeq(reply, 1, 2) = <<"Identification: ", "d">>
                      /\ d.visual_matches # <<>> => "Visual Matches:" \in Range(reply)
                /\ (~Extracted(d) /\ d.raw_text # <<>>) =>
                      reply = RawShown(d.raw_text)
                /\ (~Extracted(d) /\ d.raw_text = <<>>) =>
                      reply = <<"Could not identify this object.">>
                /\ reply = <<>> =>
                      /\ ~Extracted(d)
                      /\ d.raw_text # <<>>
                      /\ Range(d.raw_text) \subseteq Whitespace

(* A page with a description, matches and raw text all present was         *)
(* answered without the raw text; its fourth match is not shown.           *)
C25_Witness ==
    \E r \in Runs :
        /\ Answered(r)
        /\ run[r].data.ai_overview # <<>>
        /\ Len(run[r].data.visual_matches) = 4
        /\ "r" \in Range(run[r].data.raw_text)
        /\ "r" \notin Range(run[r].reply)
        /\ "3" \in Range(run[r].reply)


====
